---- MODULE Spec2Model ----
(***************************************************************************)
(* Model of the alert-aid client: the rule-based hazard scoring of         *)
(* LocationHazardService, the in-memory TTL caches that guard outbound     *)
(* requests, the aggregation of DisasterDataService, the EmergencySOS      *)
(* press-and-hold component, the SOS countdown of EmergencyResponsePanel   *)
(* and the shelter search of shelterService.                               *)
(*                                                                         *)
(* Probabilities and confidences are kept in percent (riskScore / 100 is   *)
(* compared against 0.95 in the code; here riskScore against 95).          *)
(* Wall-clock time is counted in ticks of five minutes.                    *)
(***************************************************************************)
EXTENDS Integers, Sequences, FiniteSets, TLC

VARIABLES
    \* ---- LocationHazardService scoring (SpecRisk)
    geoData,        \* argument geoData of calculate*Risk
    weather,        \* argument weather of calculate*Risk
    fn,             \* which calculate*Risk function the behaviour calls
    date,           \* new Date(): [month |-> getMonth(), day |-> getDate()]
    elapsed,        \* half months gone by since the behaviour started
    first,          \* month and result of the first call, or NoCall
    last,           \* month and result of the latest call, or NoCall
    \* ---- TTL caches (SpecCache, SpecHazard, SpecWeather, SpecAgg)
    svc,            \* the service whose cache the behaviour follows
    now,            \* Date.now(), in ticks
    cache,          \* the service's Map: key -> entry or NONE
    calls,          \* the calls awaiting a response, in the order they began
    done,           \* the call that returned last, or NoneDone
    started,        \* number of calls begun so far
    lastStore,      \* history: key -> the latest cache.set under the key
    \* ---- DisasterDataService.getAggregatedData (SpecAgg)
    agg,            \* the running getAggregatedData call
    \* ---- EmergencySOS (SpecSOS)
    sos,            \* the component's state, timers included
    \* ---- EmergencyResponsePanel (SpecPanel)
    panel           \* the panel's sosState, its timers and running executeSOS calls

NONE == "none"

Min(a, b) == IF a < b THEN a ELSE b
Max(a, b) == IF a > b THEN a ELSE b

(***************************************************************************)
(* CITY_GEOGRAPHIC_DATA                                                    *)
(***************************************************************************)
Geo(el, te, nr, rd, nc, cd, sz, ar, ve, fh) ==
    [elevation |-> el, terrain |-> te, nearRiver |-> nr, riverDistance |-> rd,
     nearCoast |-> nc, coastDistance |-> cd, seismicZone |-> sz,
     annualRainfall |-> ar, vegetation |-> ve, floodHistory |-> fh]

CITY_GEOGRAPHIC_DATA ==
    [delhi     |-> Geo(216, "flat", TRUE, 5, FALSE, 1000, 4, 797, "urban", "occasional"),
     newdelhi  |-> Geo(216, "flat", TRUE, 8, FALSE, 1000, 4, 797, "urban", "rare"),
     gurgaon   |-> Geo(217, "flat", FALSE, 25, FALSE, 950, 4, 650, "urban", "rare"),
     noida     |-> Geo(200, "flat", TRUE, 3, FALSE, 1020, 4, 800, "urban", "occasional"),
     mumbai    |-> Geo(14, "coastal", TRUE, 2, TRUE, 0, 3, 2422, "urban", "frequent"),
     chennai   |-> Geo(6, "coastal", TRUE, 1, TRUE, 0, 3, 1400, "urban", "frequent"),
     kolkata   |-> Geo(9, "delta", TRUE, 0, FALSE, 100, 3, 1582, "urban", "frequent"),
     bangalore |-> Geo(920, "hilly", FALSE, 50, FALSE, 350, 2, 970, "urban", "occasional"),
     bengaluru |-> Geo(920, "hilly", FALSE, 50, FALSE, 350, 2, 970, "urban", "occasional"),
     shimla    |-> Geo(2276, "mountainous", TRUE, 10, FALSE, 1200, 4, 1575, "dense", "rare"),
     dehradun  |-> Geo(435, "hilly", TRUE, 5, FALSE, 1100, 4, 2073, "moderate", "occasional"),
     jaipur    |-> Geo(431, "flat", FALSE, 50, FALSE, 500, 2, 650, "sparse", "rare"),
     default   |-> Geo(200, "flat", FALSE, 100, FALSE, 500, 2, 800, "moderate", "rare")]

\* estimateGeographicData: the record derived from the coordinates alone.
\* Coordinates are in thousandths of a degree throughout.
estimateGeographicData(lat, lon) ==
    LET isHimalayanRegion == lat > 28000 /\ lat < 36000 /\ lon > 74000 /\ lon < 92000
        isCoastal == (lon < 73000 \/ lon > 87000) \/ lat < 12000
        isGangeticPlain == lat > 22000 /\ lat < 28000 /\ lon > 78000 /\ lon < 90000
        isTharDesert == lat > 24000 /\ lat < 30000 /\ lon > 68000 /\ lon < 76000
        isWesternGhats == lon > 73000 /\ lon < 78000 /\ lat > 8000 /\ lat < 21000
        pick == IF isHimalayanRegion THEN <<"mountainous", 5, 2000>>
                ELSE IF isWesternGhats THEN <<"hilly", 3, 800>>
                ELSE IF isCoastal THEN <<"coastal", 3, 10>>
                ELSE IF isGangeticPlain THEN <<"flat", 4, 80>>
                ELSE <<"flat", 2, 200>>
    IN  Geo(pick[3], pick[1],
            isGangeticPlain \/ isCoastal,
            IF isGangeticPlain THEN 20 ELSE 100,
            isCoastal,
            IF isCoastal THEN 10 ELSE 500,
            pick[2],
            IF isCoastal THEN 2000 ELSE (IF isTharDesert THEN 300 ELSE 800),
            IF isTharDesert THEN "desert" ELSE (IF isCoastal THEN "moderate" ELSE "urban"),
            IF isGangeticPlain \/ isCoastal THEN "occasional" ELSE "rare")

\* getGeographicData for a normalised city name that is either a key of the
\* table or matches no key, not even partially
getGeographicData(cityName, lat, lon) ==
    IF cityName \in DOMAIN CITY_GEOGRAPHIC_DATA
    THEN CITY_GEOGRAPHIC_DATA[cityName]
    ELSE estimateGeographicData(lat, lon)

\* Coordinates of places outside the table: Himalaya, Western Ghats, east
\* coast, Gangetic plain, Thar desert, Deccan
SamplePlaces ==
    {<<32000, 77000>>, <<15000, 75000>>, <<20000, 88000>>, <<25000, 83000>>,
     <<27000, 74000>>, <<18000, 79000>>}

GeoRecords ==
    {CITY_GEOGRAPHIC_DATA[c] : c \in DOMAIN CITY_GEOGRAPHIC_DATA}
        \cup {estimateGeographicData(p[1], p[2]) : p \in SamplePlaces}

(***************************************************************************)
(* WeatherData                                                             *)
(***************************************************************************)
Weather(t, h, ws, r, p, d, c) ==
    [temperature |-> t, humidity |-> h, windSpeed |-> ws, rainfall24h |-> r,
     pressure |-> p, description |-> d, clouds |-> c]

DefaultWeather_NoWindNoClouds == Weather(25, 50, 0, 0, 1013, "clear", 0)

\* the record getWeatherData returns when the request fails
DefaultWeather == Weather(25, 50, 5, 0, 1013, "clear", 20)

\* the record getWeatherData builds from a payload that carries no field
EmptyPayloadWeather == Weather(25, 50, 0, 0, 1013, "clear", 0)

WeatherRecords ==
    {DefaultWeather, EmptyPayloadWeather,
     Weather(28, 90, 25, 60, 995, "thunderstorm", 90),
     Weather(42, 25, 16, 0, 1005, "clear", 10),
     Weather(36, 45, 12, 25, 1013, "light rain", 85),
     Weather(30, 60, 8, 8, 1008, "few clouds", 50),
     Weather(38, 20, 25, 0, 999, "storm", 95)}

\* weather.description.includes('storm') || includes('thunder')
DescribesStorm(d) == d \in {"thunderstorm", "storm"}

(***************************************************************************)
(* The scoring functions.  Each `if' of the code that adds points and      *)
(* pushes a factor is a pair <<points, factors>>; the pairs are summed and *)
(* concatenated in the order of the code.  A factor is <<text, number>>,   *)
(* the number being the value the text embeds (0 when it embeds none).     *)
(***************************************************************************)
No == <<0, <<>>>>
F(points, text, n) == <<points, << <<text, n>> >> >>

RECURSIVE Points(_)
Points(steps) == IF steps = <<>> THEN 0 ELSE Head(steps)[1] + Points(Tail(steps))

RECURSIVE Factors(_)
Factors(steps) == IF steps = <<>> THEN <<>> ELSE Head(steps)[2] \o Factors(Tail(steps))

\* Number.prototype.toFixed(1) of a whole number n: the digits of n, ".0";
\* kept as the number of tenths
toFixed1(n) == n * 10

getRiskLevel(probability) ==
    IF probability >= 70 THEN "critical"
    ELSE IF probability >= 45 THEN "high"
    ELSE IF probability >= 20 THEN "moderate"
    ELSE "low"

\* The recommendation lists are constant arrays; each is named by a tag.
getFloodRecommendations(risk) ==
    IF risk < 20 THEN "flood: standard preparedness"
    ELSE IF risk < 45 THEN "flood: monitor"
    ELSE "flood: prepare for flooding"

getEarthquakeRecommendations(risk) ==
    IF risk >= 25 THEN "earthquake: base + high seismic zone" ELSE "earthquake: base"

getStormRecommendations(risk) ==
    IF risk < 20 THEN "storm: none needed"
    ELSE IF risk < 45 THEN "storm: secure items"
    ELSE "storm: conditions developing"

getFireRecommendations(risk) ==
    IF risk < 15 THEN "fire: urban standard" ELSE "fire: clear vegetation"

getLandslideRecommendations(risk, terrain) ==
    IF terrain = "flat" THEN "landslide: negligible"
    ELSE IF risk < 20 THEN "landslide: low risk"
    ELSE "landslide: be alert"

Result(type, probability, confidence, factors, trend, recs) ==
    [type |-> type, riskLevel |-> getRiskLevel(probability),
     probability |-> probability, confidence |-> confidence,
     factors |-> factors, trend |-> trend, recommendations |-> recs]

\* const month = new Date().getMonth(); month >= 5 && month <= 8 && ...
monsoonSeason_ByDayOfMonth(d, g) == d.day >= 5 /\ d.day <= 8 /\ g.annualRainfall > 1000

monsoonSeason(d, g) == d.month >= 5 /\ d.month <= 8 /\ g.annualRainfall > 1000

\* d is new Date() at the time of the call
calculateFloodRisk(g, w, d) ==
    LET river == IF g.nearRiver /\ g.riverDistance < 10
                 THEN F(25, "Located km from river", g.riverDistance)
                 ELSE IF g.nearRiver THEN F(10, "River in vicinity", 0) ELSE No
        coast == IF g.nearCoast THEN F(20, "Coastal location - storm surge risk", 0) ELSE No
        terrain == IF g.terrain = "delta" THEN F(25, "Low-lying delta region", 0)
                   ELSE IF g.terrain = "flat" /\ g.elevation < 50
                        THEN F(15, "Low elevation flat terrain", 0) ELSE No
        history == IF g.floodHistory = "frequent"
                   THEN F(20, "Area has frequent flooding history", 0)
                   ELSE IF g.floodHistory = "occasional"
                        THEN F(10, "Occasional flooding in region", 0) ELSE No
        rain == IF w.rainfall24h > 50 THEN F(30, "Heavy rainfall: mm", toFixed1(w.rainfall24h))
                ELSE IF w.rainfall24h > 20
                     THEN F(15, "Moderate rainfall: mm", toFixed1(w.rainfall24h))
                ELSE IF w.rainfall24h > 5 THEN F(5, "Light rainfall recorded", 0) ELSE No
        humid == IF w.humidity > 85 THEN F(10, "High humidity: %", w.humidity) ELSE No
        monsoon == IF monsoonSeason(d, g)
                   THEN F(15, "Active monsoon season", 0) ELSE No
        steps == <<river, coast, terrain, history, rain, humid, monsoon>>
        riskScore == Points(steps)
        factors == Factors(steps)
        probability == Min(riskScore, 95)
        trend == IF w.rainfall24h > 10 THEN "increasing" ELSE "stable"
    IN  IF ~g.nearRiver /\ ~g.nearCoast /\ g.terrain = "flat"
        THEN LET cappedProbability == Min(probability, 25)
             IN  Result("flood", cappedProbability, 85,
                        IF Len(factors) > 0 THEN factors
                        ELSE << <<"No significant flood risk factors in area", 0>> >>,
                        trend, getFloodRecommendations(cappedProbability))
        ELSE Result("flood", probability, 85,
                    IF Len(factors) > 0 THEN factors ELSE << <<"Low flood risk area", 0>> >>,
                    trend, getFloodRecommendations(probability))

calculateEarthquakeRisk(g) ==
    LET zone == CASE g.seismicZone = 5 ->
                       <<45, << <<"Located in Seismic Zone V (Very High Risk)", 0>>,
                                <<"Himalayan fault line proximity", 0>> >> >>
                  [] g.seismicZone = 4 -> F(25, "Located in Seismic Zone IV (High Risk)", 0)
                  [] g.seismicZone = 3 -> F(15, "Located in Seismic Zone III (Moderate Risk)", 0)
                  [] g.seismicZone = 2 -> F(8, "Located in Seismic Zone II (Low Risk)", 0)
                  [] OTHER -> F(5, "Located in Seismic Zone I (Very Low Risk)", 0)
        terrain == IF g.terrain = "mountainous"
                   THEN F(10, "Mountainous terrain - higher seismic activity", 0) ELSE No
        steps == <<zone, terrain>>
        probability == Min(Points(steps), 60)
    IN  Result("earthquake", probability, 55, Factors(steps), "stable",
               getEarthquakeRecommendations(probability))

calculateStormRisk(g, w) ==
    LET wind == IF w.windSpeed > 20 THEN F(40, "High winds: m/s", toFixed1(w.windSpeed))
                ELSE IF w.windSpeed > 10
                     THEN F(20, "Moderate winds: m/s", toFixed1(w.windSpeed))
                ELSE IF w.windSpeed > 5 THEN F(5, "Light winds", 0) ELSE No
        pressure == IF w.pressure < 1000 THEN F(25, "Low pressure system: hPa", w.pressure)
                    ELSE IF w.pressure < 1010 THEN F(10, "Slightly low pressure", 0) ELSE No
        clouds == IF w.clouds > 80 THEN F(15, "Heavy cloud cover", 0) ELSE No
        coast == IF g.nearCoast THEN F(15, "Coastal exposure to cyclones", 0) ELSE No
        descr == IF DescribesStorm(w.description)
                 THEN F(30, "Current conditions: description", 0) ELSE No
        steps == <<wind, pressure, clouds, coast, descr>>
        factors == Factors(steps)
        probability == Min(Points(steps), 90)
    IN  Result("storm", probability, 80,
               IF Len(factors) > 0 THEN factors ELSE << <<"Calm weather conditions", 0>> >>,
               IF w.windSpeed > 10 \/ w.pressure < 1005 THEN "increasing" ELSE "stable",
               getStormRecommendations(probability))

\* riskScore = Math.max(0, riskScore - 20)
rainReduction_NoFloor(riskScore) == riskScore - 20

rainReduction(riskScore) == Max(0, riskScore - 20)

calculateFireRisk(g, w) ==
    LET veg == IF g.vegetation = "dense" THEN F(25, "Dense vegetation cover", 0)
               ELSE IF g.vegetation = "moderate" THEN F(15, "Moderate vegetation", 0) ELSE No
        dry == IF w.humidity < 30 THEN F(30, "Very low humidity: %", w.humidity)
               ELSE IF w.humidity < 50 THEN F(15, "Low humidity: %", w.humidity) ELSE No
        heat == IF w.temperature > 40 THEN F(25, "Extreme heat: C", toFixed1(w.temperature))
                ELSE IF w.temperature > 35
                     THEN F(15, "High temperature: C", toFixed1(w.temperature)) ELSE No
        wind == IF w.windSpeed > 15 THEN F(20, "High winds can spread fire", 0) ELSE No
        steps == IF g.vegetation = "urban"
                 THEN << F(5, "Urban area - minimal wildfire risk", 0) >>
                 ELSE <<veg, dry, heat, wind>>
        rained == w.rainfall24h > 5
        riskScore == IF rained THEN rainReduction(Points(steps)) ELSE Points(steps)
        factors == Factors(steps)
                     \o (IF rained THEN << <<"Recent rainfall reduces risk", 0>> >> ELSE <<>>)
        probability == Min(riskScore, 80)
    IN  Result("fire", probability, 75, factors,
               IF w.humidity < 40 /\ w.temperature > 35 THEN "increasing" ELSE "stable",
               getFireRecommendations(probability))

calculateLandslideRisk(g, w) ==
    LET terrain == IF g.terrain = "mountainous"
                   THEN F(35, "Mountainous terrain - high landslide risk", 0)
                   ELSE IF g.terrain = "hilly"
                        THEN F(20, "Hilly terrain - moderate slope risk", 0)
                   ELSE IF g.terrain = "flat"
                        THEN F(2, "Flat terrain - minimal landslide risk", 0) ELSE No
        rain == IF w.rainfall24h > 50
                THEN F(35, "Heavy rainfall saturating slopes: mm", toFixed1(w.rainfall24h))
                ELSE IF w.rainfall24h > 20
                     THEN F(20, "Moderate rainfall affecting soil stability", 0) ELSE No
        seismic == IF g.seismicZone >= 4
                   THEN F(15, "High seismic activity can trigger slides", 0) ELSE No
        high == IF g.elevation > 1500 THEN F(10, "High elevation: m", g.elevation) ELSE No
        steps == IF g.terrain # "flat" THEN <<terrain, rain, seismic, high>> ELSE <<terrain>>
        probability == Min(Points(steps), 85)
    IN  Result("landslide", probability,
               IF g.terrain = "flat" THEN 95 ELSE 70,
               Factors(steps),
               IF w.rainfall24h > 30 /\ g.terrain # "flat" THEN "increasing" ELSE "stable",
               getLandslideRecommendations(probability, g.terrain))

HazardTypes == <<"flood", "earthquake", "storm", "fire", "landslide">>

\* the array getHazardPredictions returns for geoData g and weather w
Predictions(g, w, d) ==
    << calculateFloodRisk(g, w, d), calculateEarthquakeRisk(g), calculateStormRisk(g, w),
       calculateFireRisk(g, w), calculateLandslideRisk(g, w) >>

\* one call of the function named f
Calculate(f, g, w, d) ==
    CASE f = "flood" -> calculateFloodRisk(g, w, d)
      [] f = "earthquake" -> calculateEarthquakeRisk(g)
      [] f = "storm" -> calculateStormRisk(g, w)
      [] f = "fire" -> calculateFireRisk(g, w)
      [] f = "landslide" -> calculateLandslideRisk(g, w)


(***************************************************************************)
(* SpecRisk: one scoring function called again and again with the same     *)
(* arguments while the calendar advances.                                  *)
(***************************************************************************)
MaxElapsed == 3

\* the two days of a month on which calls are made
EarlyDay == 6
LateDay == 20

\* first and last before any call
NoCall == [date |-> [month |-> 0 - 1, day |-> 0], res |-> [type |-> NONE]]

riskVars == <<geoData, weather, fn, date, elapsed, first, last>>
cacheVars == <<svc, now, cache, calls, done, started, lastStore>>

\* done before any call has returned
NoneDone == [op |-> NONE, pc |-> NONE, outcome |-> NONE]

\* a Map with no entry
EmptyMap == [k \in {} |-> NONE]

RiskIdle ==
    /\ geoData = NONE /\ weather = NONE /\ fn = NONE /\ date = NONE
    /\ elapsed = 0 /\ first = NoCall /\ last = NoCall
CacheIdle ==
    /\ svc = NONE /\ now = 0 /\ cache = EmptyMap /\ calls = <<>> /\ lastStore = EmptyMap
    /\ done = NoneDone /\ started = 0
AggIdle == agg = NONE
SosIdle == sos = NONE
PanelIdle == panel = NONE

InitRisk ==
    /\ geoData \in GeoRecords
    /\ weather \in WeatherRecords
    /\ fn \in {HazardTypes[i] : i \in 1..Len(HazardTypes)}
    /\ date \in [month : 0..11, day : {EarlyDay}]
    /\ elapsed = 0
    /\ first = NoCall
    /\ last = NoCall
    /\ CacheIdle /\ AggIdle /\ SosIdle /\ PanelIdle

\* a call of the function fn with (geoData, weather)
CallRisk ==
    LET r == [date |-> date, res |-> Calculate(fn, geoData, weather, date)]
    IN  /\ first' = IF first = NoCall THEN r ELSE first
        /\ last' = r
        /\ UNCHANGED <<geoData, weather, fn, date, elapsed>>
        /\ UNCHANGED <<cacheVars, agg, sos, panel>>

\* half a month goes by between two calls
HalfMonthLater(d) ==
    IF d.day = EarlyDay THEN [d EXCEPT !.day = LateDay]
    ELSE [month |-> (d.month + 1) % 12, day |-> EarlyDay]

PassTime ==
    /\ elapsed < MaxElapsed
    /\ date' = HalfMonthLater(date)
    /\ elapsed' = elapsed + 1
    /\ UNCHANGED <<geoData, weather, fn, first, last>>
    /\ UNCHANGED <<cacheVars, agg, sos, panel>>

NextRisk == CallRisk \/ PassTime

vars == <<riskVars, cacheVars, agg, sos, panel>>

SpecRisk == InitRisk /\ [][NextRisk]_vars

----------------------------------------------------------------------------
\* The points the code adds together with each factor text it pushes.
FactorPoints(text) ==
    CASE text = "Located km from river" -> 25
      [] text = "River in vicinity" -> 10
      [] text = "Coastal location - storm surge risk" -> 20
      [] text = "Low-lying delta region" -> 25
      [] text = "Low elevation flat terrain" -> 15
      [] text = "Area has frequent flooding history" -> 20
      [] text = "Occasional flooding in region" -> 10
      [] text = "Heavy rainfall: mm" -> 30
      [] text = "Moderate rainfall: mm" -> 15
      [] text = "Light rainfall recorded" -> 5
      [] text = "High humidity: %" -> 10
      [] text = "Active monsoon season" -> 15
      [] text = "Located in Seismic Zone V (Very High Risk)" -> 45
      [] text = "Located in Seismic Zone IV (High Risk)" -> 25
      [] text = "Located in Seismic Zone III (Moderate Risk)" -> 15
      [] text = "Located in Seismic Zone II (Low Risk)" -> 8
      [] text = "Located in Seismic Zone I (Very Low Risk)" -> 5
      [] text = "Mountainous terrain - higher seismic activity" -> 10
      [] text = "High winds: m/s" -> 40
      [] text = "Moderate winds: m/s" -> 20
      [] text = "Light winds" -> 5
      [] text = "Low pressure system: hPa" -> 25
      [] text = "Slightly low pressure" -> 10
      [] text = "Heavy cloud cover" -> 15
      [] text = "Coastal exposure to cyclones" -> 15
      [] text = "Current conditions: description" -> 30
      [] text = "Urban area - minimal wildfire risk" -> 5
      [] text = "Dense vegetation cover" -> 25
      [] text = "Moderate vegetation" -> 15
      [] text = "Very low humidity: %" -> 30
      [] text = "Low humidity: %" -> 15
      [] text = "Extreme heat: C" -> 25
      [] text = "High temperature: C" -> 15
      [] text = "High winds can spread fire" -> 20
      [] text = "Recent rainfall reduces risk" -> 0 - 20
      [] text = "Mountainous terrain - high landslide risk" -> 35
      [] text = "Hilly terrain - moderate slope risk" -> 20
      [] text = "Flat terrain - minimal landslide risk" -> 2
      [] text = "Heavy rainfall saturating slopes: mm" -> 35
      [] text = "Moderate rainfall affecting soil stability" -> 20
      [] text = "High seismic activity can trigger slides" -> 15
      [] text = "High elevation: m" -> 10
      [] OTHER -> 0

RECURSIVE FactorSum(_)
FactorSum(fs) == IF fs = <<>> THEN 0 ELSE FactorPoints(Head(fs)[1]) + FactorSum(Tail(fs))

\* the cap the claim names for each function, in percent
ClaimedCap(type) ==
    CASE type = "flood" -> 95 [] type = "earthquake" -> 60 [] type = "storm" -> 90
      [] type = "fire" -> 80 [] type = "landslide" -> 85

FlatFarFromWater(g) == ~g.nearRiver /\ ~g.nearCoast /\ g.terrain = "flat"

\* C1 as stated: the returned probability is min(sum of the points of the
\* applicable factors / 100, cap) and lies in 0..cap, for every function.
C1_AsStated ==
    last # NoCall =>
        LET r == last.res
        IN  /\ r.probability = Min(FactorSum(r.factors), ClaimedCap(r.type))
            /\ 0 <= r.probability /\ r.probability <= ClaimedCap(r.type)

\* C1 (amended): 0 <= p <= cap for every function, and p is min(score / 100, cap)
\* where score is the sum of the points of the applicable factors, except that
\* calculateFireRisk floors the score at 0 once the rainfall reduction of 20 is
\* taken off, and calculateFloodRisk caps p at 0.25 as well when the terrain is
\* flat and the place is near neither a river nor the coast.
C1_ScoreIsClampedSum ==
    last # NoCall =>
        LET r == last.res
            cap == ClaimedCap(r.type)
            score == FactorSum(r.factors)
        IN  /\ 0 <= r.probability /\ r.probability <= cap /\ cap <= 100
            /\ r.type = fn
            /\ r.probability =
                 CASE r.type = "fire" -> Min(Max(0, score), cap)
                   [] r.type = "flood" /\ FlatFarFromWater(geoData) -> Min(Min(score, cap), 25)
                   [] OTHER -> Min(score, cap)

\* a call whose raw score exceeds the cap, one where the flood cap of 0.25
\* applies, and one where the rainfall reduction reaches the floor
C1_Witness ==
    /\ last # NoCall
    /\ \/ FactorSum(last.res.factors) > ClaimedCap(last.res.type)
       \/ fn = "flood" /\ FlatFarFromWater(geoData) /\ FactorSum(last.res.factors) > 25
       \/ fn = "fire" /\ FactorSum(last.res.factors) < 0

\* C2 as stated: two calls of the same function with the same arguments
\* return the same result, whenever they are made.
C2_AsStated ==
    (first # NoCall /\ last # NoCall) => first.res = last.res

\* C2 (amended): two calls of the same function with the same arguments return
\* the same result when they are made in the same calendar month; the results
\* of calculateEarthquakeRisk, calculateStormRisk, calculateFireRisk and
\* calculateLandslideRisk do not depend on when the call is made at all.
C2_SameMonthSameResult ==
    (first # NoCall /\ last # NoCall /\ (fn = "flood" => first.date.month = last.date.month))
        => first.res = last.res

\* two calls made on different days: of calculateFloodRisk within one monsoon
\* month, or of another function in May and then in June
C2_Witness ==
    /\ first # NoCall /\ last # NoCall /\ first.date # last.date
    /\ geoData.annualRainfall > 1000
    /\ \/ fn = "flood" /\ first.date.month = 6 /\ last.date.month = 6
       \/ fn = "storm" /\ first.date.month = 4 /\ last.date.month = 5

(***************************************************************************)
(* The TTL caches.  Every service keeps its own Map and its own            *)
(* CACHE_DURATION and shares no state with the others, so a behaviour of   *)
(* SpecCache follows one service, chosen in the initial state.  A call is  *)
(* a record; an await of a network request is the gap between the action   *)
(* that starts the call and the action that delivers the response, so the  *)
(* calls of a behaviour overlap freely.                                    *)
(***************************************************************************)
MaxTime == 2
MaxCalls == 2

\* CACHE_DURATION of each service, in ticks of five minutes
HAZARD_CACHE_DURATION == 2
DISASTER_CACHE_DURATION == 1
ML_CACHE_DURATION == 1
ALERT_CACHE_DURATION == 2
WEATHER_CACHE_DURATION == 1

\* (lat, lon) of the calls: the first two differ in the third decimal only
Places == {<<28612, 77209>>, <<28614, 77209>>, <<28688, 77209>>}

\* Number.prototype.toFixed(digits) of a coordinate, as the integer the
\* digits spell (28612 -> 2861 for two digits, 286 for one)
toFixed(x, digits) ==
    CASE digits = 3 -> x
      [] digits = 2 -> (x + 5) \div 10
      [] digits = 1 -> (x + 50) \div 100

\* a Map entry {data, timestamp}; NoEntry is what Map.get returns for a
\* key the Map does not hold
Entry(d, t) == [present |-> TRUE, data |-> d, timestamp |-> t]
NoEntry == [present |-> FALSE]

\* Map.get
Get(key) == IF key \in DOMAIN cache THEN cache[key] ELSE NoEntry

\* history: the latest cache.set under the key, NoEntry when there was none
Known(key) == IF key \in DOMAIN lastStore THEN lastStore[key] ELSE NoEntry

\* Map.set(key, {data, timestamp: Date.now()})
CacheSet(key, d) ==
    /\ cache' = (key :> Entry(d, now)) @@ cache
    /\ lastStore' = (key :> [present |-> TRUE, data |-> d, timestamp |-> now,
                             cleared |-> FALSE]) @@ lastStore

\* Map.clear()
CacheClear ==
    /\ cache' = EmptyMap
    /\ lastStore' = [k \in DOMAIN lastStore |-> [lastStore[k] EXCEPT !.cleared = TRUE]]

\* the record of a call at its start: `seen' is the entry its lookup found,
\* `known' the latest store under its key (history); place and city are the
\* arguments the call still needs after its key is built
NewCall(op, key, place, city, seen) ==
    [op |-> op, key |-> key, place |-> place, city |-> city, start |-> now,
     seen |-> seen, known |-> Known(key), pc |-> "start", reqs |-> <<>>,
     failed |-> <<>>, outcome |-> "pending", value |-> NONE, predictions |-> <<>>]

Finish(c, outcome, value) ==
    [c EXCEPT !.pc = "done", !.outcome = outcome, !.value = value]

Request(c, pc, endpoint) ==
    [c EXCEPT !.pc = pc, !.reqs = Append(@, endpoint)]

\* a call begins with record c: it has returned already (served from the
\* cache) or awaits its first response
StartCall(c) ==
    /\ started' = started + 1
    /\ IF c.pc = "done" THEN done' = c /\ calls' = calls
       ELSE calls' = Append(calls, c) /\ done' = done

\* the i-th waiting call moves on to record c: it returns or awaits the
\* next response
Settle(i, c) ==
    /\ started' = started
    /\ IF c.pc = "done"
       THEN /\ done' = c
            /\ calls' = SubSeq(calls, 1, i - 1) \o SubSeq(calls, i + 1, Len(calls))
       ELSE /\ calls' = [calls EXCEPT ![i] = c]
            /\ done' = done

\* wall-clock time advances
Tick ==
    /\ now < MaxTime
    /\ now' = now + 1
    /\ UNCHANGED <<svc, cache, calls, done, started, lastStore>>
    /\ UNCHANGED <<riskVars, agg, sos, panel>>

----------------------------------------------------------------------------
\* LocationHazardService.getWeatherData / getHazardPredictions

Cities == {"delhi", "elsewhere"}

\* the fields of the OpenWeatherMap payload the code reads; a payload may
\* lack any of them
HazardPayloads ==
    {[temp |-> 28, humidity |-> 90, speed |-> 25, rain3h |-> 60, pressure |-> 995,
      description |-> "thunderstorm", clouds |-> 90],
     [temp |-> 42, rain1h |-> 0, rain3h |-> 9]}

\* response.ok with a payload, or one of: fetch rejects, !response.ok,
\* a body that is not an object (the property read throws)
Failures == {"network error", "not ok", "no body"}

Opt(payload, field, default) ==
    IF field \in DOMAIN payload THEN payload[field] ELSE default

\* const weatherData = { temperature: data.main?.temp ?? 25, ... }
WeatherFromPayload(data) ==
    Weather(Opt(data, "temp", 25), Opt(data, "humidity", 50), Opt(data, "speed", 0),
            IF "rain1h" \in DOMAIN data THEN data.rain1h ELSE Opt(data, "rain3h", 0),
            Opt(data, "pressure", 1013), Opt(data, "description", "clear"),
            Opt(data, "clouds", 0))

\* cached && Date.now() - cached.timestamp < this.CACHE_DURATION
hazardFresh(cached) ==
    cached.present /\ now - cached.timestamp < HAZARD_CACHE_DURATION

hazardKey(place) == <<"weather", toFixed(place[1], 2), toFixed(place[2], 2)>>

WithPredictions(c, w) ==
    [c EXCEPT !.predictions =
        Predictions(getGeographicData(c.city, c.place[1], c.place[2]), w, date)]

\* getHazardPredictions up to the await of fetch in getWeatherData, or to
\* its return when the cache serves the weather
getHazardPredictions_Start ==
    \E city \in Cities, place \in Places :
        /\ svc = "hazard"
        /\ started < MaxCalls
        /\ LET cached == Get(hazardKey(place))
               c == NewCall("getHazardPredictions", hazardKey(place), place, city, cached)
           IN  StartCall(
                   IF hazardFresh(cached)
                   THEN WithPredictions(Finish(c, "cached", cached.data), cached.data)
                   ELSE Request(c, "fetch", "openweathermap"))
        /\ UNCHANGED <<svc, now, cache, lastStore>>
        /\ UNCHANGED <<riskVars, agg, sos, panel>>

\* the response arrives: the try block stores and returns the weather, the
\* catch block returns the default record; the five results follow
getHazardPredictions_Response ==
    \E i \in 1..Len(calls) :
        /\ svc = "hazard"
        /\ calls[i].pc = "fetch"
        /\ \/ \E data \in HazardPayloads :
                LET weatherData == WeatherFromPayload(data)
                IN  /\ CacheSet(calls[i].key, weatherData)
                    /\ Settle(i, WithPredictions(Finish(calls[i], "fetched", weatherData), weatherData))
           \/ \E failure \in Failures :
                /\ Settle(i, WithPredictions(
                          [Finish(calls[i], "default", DefaultWeather)
                              EXCEPT !.failed = <<"openweathermap">>],
                          DefaultWeather))
                /\ UNCHANGED <<cache, lastStore>>
        /\ UNCHANGED <<svc, now>>
        /\ UNCHANGED <<riskVars, agg, sos, panel>>

----------------------------------------------------------------------------
\* JSON values as the caches of DisasterDataService and advancedMLApi hold
\* them: arrays and objects are truthy, null stands for the falsy values
Null == [kind |-> "null"]
Array(items) == [kind |-> "array", items |-> items]
Object(id) == [kind |-> "object", id |-> id]
Truthy(v) == v.kind # "null"

----------------------------------------------------------------------------
\* DisasterDataService: fetchNASAEvents, fetchGDACSAlerts, fetchNASAFIRMS,
\* fetchIMDWarnings, fetchUSGSEarthquakes

DisasterFetchers ==
    {"fetchNASAEvents", "fetchGDACSAlerts", "fetchNASAFIRMS", "fetchIMDWarnings",
     "fetchUSGSEarthquakes"}

\* const cacheKey = 'nasa_eonet' | 'gdacs_alerts' | `firms_${lat.toFixed(1)}_...`
disasterKey(fetcher, place) ==
    CASE fetcher = "fetchNASAEvents" -> <<"nasa_eonet", 0, 0>>
      [] fetcher = "fetchGDACSAlerts" -> <<"gdacs_alerts", 0, 0>>
      [] fetcher = "fetchNASAFIRMS" -> <<"firms", toFixed(place[1], 1), toFixed(place[2], 1)>>
      [] fetcher = "fetchIMDWarnings" -> <<"imd", toFixed(place[1], 2), toFixed(place[2], 2)>>
      [] fetcher = "fetchUSGSEarthquakes" -> <<"usgs", toFixed(place[1], 2), toFixed(place[2], 2)>>

\* DisasterDataService.getFromCache
disasterGetFromCache(key) ==
    LET cached == Get(key)
    IN  IF cached.present /\ now - cached.timestamp < DISASTER_CACHE_DURATION
        THEN cached.data ELSE Null

\* the lists a successful response carries (what the fetcher maps it to)
DisasterLists == {<<>>, <<"event 1", "event 2">>}

\* a response that is ok but carries no list: success false or the list
\* missing (proxy endpoints), data.events / data.features missing (the
\* others, where the map throws)
DisasterFailures == Failures \cup {"unsuccessful"}

disasterFetch_Start ==
    \E fetcher \in DisasterFetchers, place \in Places :
        /\ svc = "disaster"
        /\ started < MaxCalls
        /\ LET key == disasterKey(fetcher, place)
               cached == disasterGetFromCache(key)
               c == NewCall(fetcher, key, NONE, NONE, Get(key))
           IN  StartCall(
                   IF Truthy(cached) THEN Finish(c, "cached", cached)
                   ELSE Request(c, "fetch", fetcher))
        /\ UNCHANGED <<svc, now, cache, lastStore>>
        /\ UNCHANGED <<riskVars, agg, sos, panel>>

disasterFetch_Response ==
    \E i \in 1..Len(calls) :
        /\ svc = "disaster"
        /\ calls[i].pc = "fetch"
        /\ \/ \E list \in DisasterLists :
                /\ CacheSet(calls[i].key, Array(list))
                /\ Settle(i, Finish(calls[i], "fetched", Array(list)))
           \/ \E failure \in DisasterFailures :
                /\ Settle(i, [Finish(calls[i], "empty", Array(<<>>))
                                 EXCEPT !.failed = <<calls[i].op>>])
                /\ UNCHANGED <<cache, lastStore>>
        /\ UNCHANGED <<svc, now>>
        /\ UNCHANGED <<riskVars, agg, sos, panel>>

----------------------------------------------------------------------------
\* advancedMLApi: getEnsemblePrediction, getEnsemblePredictionGet,
\* getAnomalyDetection, clearCache

MLOperations == {"ensemble", "ensemble-get", "anomaly"}

\* getCacheKey(endpoint, params): the endpoint and the exact coordinates
getCacheKey(endpoint, place) == <<endpoint, place[1], place[2]>>

mlGetFromCache_Inclusive(key) ==
    LET cached == Get(key)
    IN  IF cached.present /\ now - cached.timestamp <= ML_CACHE_DURATION
        THEN cached.data ELSE Null

\* getFromCache
mlGetFromCache(key) ==
    LET cached == Get(key)
    IN  IF cached.present /\ now - cached.timestamp < ML_CACHE_DURATION
        THEN cached.data ELSE Null

\* what response.json() yields for an ok response: a prediction, or a
\* falsy value
MLBodies == {Object(1), Null}

\* the key holds the exact coordinates: two places, two keys
MLPlaces == {<<28612, 77209>>, <<28614, 77209>>}

ml_Start ==
    \E endpoint \in MLOperations, place \in MLPlaces :
        /\ svc = "ml"
        /\ started < MaxCalls
        /\ LET key == getCacheKey(endpoint, place)
               cached == mlGetFromCache(key)
               c == NewCall(endpoint, key, NONE, NONE, Get(key))
           IN  StartCall(
                   IF Truthy(cached) THEN Finish(c, "cached", cached)
                   ELSE Request(c, "fetch", endpoint))
        /\ UNCHANGED <<svc, now, cache, lastStore>>
        /\ UNCHANGED <<riskVars, agg, sos, panel>>

ml_Response ==
    \E i \in 1..Len(calls) :
        /\ svc = "ml"
        /\ calls[i].pc = "fetch"
        /\ \/ \E data \in MLBodies :
                /\ CacheSet(calls[i].key, data)
                /\ Settle(i, Finish(calls[i], "fetched", data))
           \/ \E failure \in {"network error", "not ok"} :
                /\ Settle(i, [Finish(calls[i], "thrown", Null) EXCEPT !.failed = <<calls[i].op>>])
                /\ UNCHANGED <<cache, lastStore>>
        /\ UNCHANGED <<svc, now>>
        /\ UNCHANGED <<riskVars, agg, sos, panel>>

\* AdvancedMLApi.clearCache
clearCache ==
    /\ svc = "ml"
    /\ cache # EmptyMap
    /\ CacheClear
    /\ UNCHANGED <<svc, now, calls, done, started>>
    /\ UNCHANGED <<riskVars, agg, sos, panel>>

----------------------------------------------------------------------------
\* fetchRealDisasterAlerts, clearAlertCache

RadiusKm == 500

\* `${lat.toFixed(1)},${lng.toFixed(1)},${radiusKm}`
alertKey(place) == <<"alerts", toFixed(place[1], 1), toFixed(place[2], 1), RadiusKm>>

Alert(severity, distance) == [severity |-> severity, distance |-> distance]

\* const severityOrder = { extreme: 0, severe: 1, moderate: 2, minor: 3 }
severityOrder(severity) ==
    CASE severity = "extreme" -> 0 [] severity = "severe" -> 1
      [] severity = "moderate" -> 2 [] severity = "minor" -> 3

\* the comparator of alerts.sort: a sorts before b
alertBefore(a, b) ==
    IF severityOrder(a.severity) # severityOrder(b.severity)
    THEN severityOrder(a.severity) < severityOrder(b.severity)
    ELSE a.distance < b.distance

RECURSIVE InsertAlert(_, _)
InsertAlert(a, sorted) ==
    IF sorted = <<>> THEN <<a>>
    ELSE IF alertBefore(a, Head(sorted)) THEN <<a>> \o sorted
    ELSE <<Head(sorted)>> \o InsertAlert(a, Tail(sorted))

\* Array.prototype.sort with the comparator (stable)
RECURSIVE SortAlerts(_)
SortAlerts(list) ==
    IF list = <<>> THEN <<>>
    ELSE InsertAlert(list[Len(list)], SortAlerts(SubSeq(list, 1, Len(list) - 1)))

\* what fetchUSGSEarthquakes and fetchNASAEONET of the alert service
\* resolve with; each catches its own errors and resolves with []
USGSAlertLists == {<<>>, <<Alert("minor", 30), Alert("severe", 200)>>}
EONETAlertLists == {<<>>, <<Alert("moderate", 50)>>}

alertFresh_Inclusive(cached) ==
    cached.present /\ now - cached.timestamp <= ALERT_CACHE_DURATION

\* cached && Date.now() - cached.timestamp < CACHE_DURATION
alertFresh(cached) ==
    cached.present /\ now - cached.timestamp < ALERT_CACHE_DURATION

fetchRealDisasterAlerts_Start ==
    \E place \in Places :
        /\ svc = "alert"
        /\ started < MaxCalls
        /\ LET cached == Get(alertKey(place))
               c == NewCall("fetchRealDisasterAlerts", alertKey(place), NONE, NONE, cached)
           IN  StartCall(
                   IF alertFresh(cached) THEN Finish(c, "cached", cached.data)
                   ELSE Request(Request(c, "fetch", "usgs"), "fetch", "eonet"))
        /\ UNCHANGED <<svc, now, cache, lastStore>>
        /\ UNCHANGED <<riskVars, agg, sos, panel>>

\* Promise.allSettled resolves: the alerts are merged, sorted, cached
fetchRealDisasterAlerts_Response ==
    \E i \in 1..Len(calls), earthquakes \in USGSAlertLists, nasaEvents \in EONETAlertLists :
        /\ svc = "alert"
        /\ calls[i].pc = "fetch"
        /\ LET alerts == SortAlerts(earthquakes \o nasaEvents)
           IN  /\ CacheSet(calls[i].key, alerts)
               /\ Settle(i, Finish(calls[i], "fetched", alerts))
        /\ UNCHANGED <<svc, now>>
        /\ UNCHANGED <<riskVars, agg, sos, panel>>

clearAlertCache ==
    /\ svc = "alert"
    /\ cache # EmptyMap
    /\ CacheClear
    /\ UNCHANGED <<svc, now, calls, done, started>>
    /\ UNCHANGED <<riskVars, agg, sos, panel>>

----------------------------------------------------------------------------
\* SimpleWeatherService.getWeather

simpleWeatherKey(place) == <<"simple", toFixed(place[1], 2), toFixed(place[2], 2)>>

\* SimpleWeatherData as fetchOpenWeatherMap / fetchOpenMeteo build it
SimpleWeather(source, temp) == [source |-> source, temp |-> temp, is_real |-> TRUE]

Temperatures == {20, 30}

simpleWeatherFresh_AnyEntry(cached) == cached.present

\* cached && Date.now() - cached.timestamp < CACHE_DURATION
simpleWeatherFresh(cached) ==
    cached.present /\ now - cached.timestamp < WEATHER_CACHE_DURATION

afterBothFailed_NoStale(c) == Finish(c, "thrown", "All weather APIs failed")

\* if (cached) return cached.data; throw new Error('All weather APIs failed...')
afterBothFailed(c) ==
    IF c.seen.present THEN Finish(c, "stale", c.seen.data)
    ELSE Finish(c, "thrown", "All weather APIs failed")

\* up to the await of fetchOpenWeatherMap, or the return of the cached data
getWeather_Start ==
    \E place \in Places :
        /\ svc = "weather"
        /\ started < MaxCalls
        /\ LET cached == Get(simpleWeatherKey(place))
               c == NewCall("getWeather", simpleWeatherKey(place), NONE, NONE, cached)
           IN  StartCall(
                   IF simpleWeatherFresh(cached) THEN Finish(c, "cached", cached.data)
                   ELSE Request(c, "owm", "OpenWeatherMap"))
        /\ UNCHANGED <<svc, now, cache, lastStore>>
        /\ UNCHANGED <<riskVars, agg, sos, panel>>

\* fetchOpenWeatherMap settles: stored and returned, or on to Open-Meteo
getWeather_OpenWeatherMap ==
    \E i \in 1..Len(calls) :
        /\ svc = "weather"
        /\ calls[i].pc = "owm"
        /\ \/ \E temp \in Temperatures :
                LET data == SimpleWeather("OpenWeatherMap", temp)
                IN  /\ CacheSet(calls[i].key, data)
                    /\ Settle(i, Finish(calls[i], "fetched", data))
           \/ \E failure \in Failures :
                /\ Settle(i, Request([calls[i] EXCEPT !.failed = Append(@, "OpenWeatherMap")],
                                     "meteo", "Open-Meteo"))
                /\ UNCHANGED <<cache, lastStore>>
        /\ UNCHANGED <<svc, now>>
        /\ UNCHANGED <<riskVars, agg, sos, panel>>

\* fetchOpenMeteo settles: stored and returned, or the stale entry the
\* lookup found, or the error
getWeather_OpenMeteo ==
    \E i \in 1..Len(calls) :
        /\ svc = "weather"
        /\ calls[i].pc = "meteo"
        /\ \/ \E temp \in Temperatures :
                LET data == SimpleWeather("Open-Meteo", temp)
                IN  /\ CacheSet(calls[i].key, data)
                    /\ Settle(i, Finish(calls[i], "fetched", data))
           \/ \E failure \in Failures :
                /\ Settle(i, afterBothFailed(
                                 [calls[i] EXCEPT !.failed = Append(@, "Open-Meteo")]))
                /\ UNCHANGED <<cache, lastStore>>
        /\ UNCHANGED <<svc, now>>
        /\ UNCHANGED <<riskVars, agg, sos, panel>>

\* SimpleWeatherService.clearCache
SimpleWeatherService_clearCache ==
    /\ svc = "weather"
    /\ cache # EmptyMap
    /\ CacheClear
    /\ UNCHANGED <<svc, now, calls, done, started>>
    /\ UNCHANGED <<riskVars, agg, sos, panel>>

----------------------------------------------------------------------------
Services == {"hazard", "disaster", "ml", "alert", "weather"}

\* the calendar day on which the behaviour runs (a monsoon month)
CacheDates == {[month |-> 6, day |-> EarlyDay]}

InitCache ==
    /\ svc \in Services
    /\ now = 0
    /\ cache = EmptyMap
    /\ calls = <<>>
    /\ done = NoneDone
    /\ started = 0
    /\ lastStore = EmptyMap
    /\ date \in CacheDates
    /\ geoData = NONE /\ weather = NONE /\ fn = NONE
    /\ elapsed = 0 /\ first = NoCall /\ last = NoCall
    /\ AggIdle /\ SosIdle /\ PanelIdle

NextCache ==
    \/ Tick
    \/ getHazardPredictions_Start
    \/ getHazardPredictions_Response
    \/ disasterFetch_Start
    \/ disasterFetch_Response
    \/ ml_Start
    \/ ml_Response
    \/ clearCache
    \/ fetchRealDisasterAlerts_Start
    \/ fetchRealDisasterAlerts_Response
    \/ clearAlertCache
    \/ getWeather_Start
    \/ getWeather_OpenWeatherMap
    \/ getWeather_OpenMeteo
    \/ SimpleWeatherService_clearCache

SpecCache == InitCache /\ [][NextCache]_vars

\* the hazard service alone
InitHazard == InitCache /\ svc = "hazard"
NextHazard == Tick \/ getHazardPredictions_Start \/ getHazardPredictions_Response
SpecHazard == InitHazard /\ [][NextHazard]_vars

\* SimpleWeatherService alone
InitWeather == InitCache /\ svc = "weather"
NextWeather ==
    \/ Tick
    \/ getWeather_Start
    \/ getWeather_OpenWeatherMap
    \/ getWeather_OpenMeteo
    \/ SimpleWeatherService_clearCache
SpecWeather == InitWeather /\ [][NextWeather]_vars

----------------------------------------------------------------------------
\* every call the state remembers: those waiting and the one that returned last
AllCalls ==
    {calls[i] : i \in 1..Len(calls)} \cup (IF done = NoneDone THEN {} ELSE {done})

Duration(service) ==
    CASE service = "hazard" -> HAZARD_CACHE_DURATION
      [] service = "disaster" -> DISASTER_CACHE_DURATION
      [] service = "ml" -> ML_CACHE_DURATION
      [] service = "alert" -> ALERT_CACHE_DURATION
      [] service = "weather" -> WEATHER_CACHE_DURATION

\* the call returned the data of the latest store under its key and sent nothing
ServedFromStore(c) ==
    /\ c.reqs = <<>>
    /\ c.outcome = "cached"
    /\ c.value = c.known.data

\* the stored value passes the `if (cached)' of the caller
PassesTruthTest(c) == svc = "hazard" \/ Truthy(c.known.data)

CachedOperations == {"hazard", "disaster", "ml"}

\* C3 as stated: a call that starts less than CACHE_DURATION after the latest
\* store under its key returns the stored data and issues no request; a call
\* that starts CACHE_DURATION or more after it issues a request.
C3_AsStated ==
    svc \in CachedOperations =>
        \A c \in AllCalls :
            c.known.present =>
                IF c.start - c.known.timestamp < Duration(svc)
                THEN ServedFromStore(c)
                ELSE c.reqs # <<>>

\* C3 (amended): a call that starts less than CACHE_DURATION after the latest
\* store under its key returns the stored data and issues no request, unless
\* clearCache emptied the cache since that store or the stored value is falsy
\* (advancedMLApi stores whatever response.json() yields), in which cases it
\* issues a request; a call that starts CACHE_DURATION or more after the store
\* issues a request.
C3_FreshEntryServed ==
    svc \in CachedOperations =>
        \A c \in AllCalls :
            c.known.present =>
                IF /\ c.start - c.known.timestamp < Duration(svc)
                   /\ ~c.known.cleared
                   /\ PassesTruthTest(c)
                THEN ServedFromStore(c)
                ELSE c.reqs # <<>>

\* a call served from a store made by an earlier call at another time, and a
\* call that had to fetch again once the entry had aged out
C3_Witness ==
    /\ svc \in CachedOperations
    /\ done # NoneDone
    /\ done.known.present
    /\ \/ /\ ServedFromStore(done)
          /\ done.start > done.known.timestamp
       \/ /\ done.start - done.known.timestamp >= Duration(svc)
          /\ done.outcome = "fetched"
          /\ ~done.known.cleared

\* the age, at the start of the call, of the entry its lookup found
AgeSeen(c) == c.start - c.seen.timestamp

\* C4 as stated: no entry is returned once its age has reached the cache
\* duration, and every entry stored stays in the cache.
C4_AsStated ==
    /\ \A c \in AllCalls :
          c.outcome \in {"cached", "stale"} => AgeSeen(c) < Duration(svc)
    /\ \A k \in DOMAIN lastStore : k \in DOMAIN cache

\* C4 (amended): an entry is served as a cache hit only while its age is below
\* the cache duration; an entry that has reached it is returned only by
\* SimpleWeatherService.getWeather, after both of its requests failed; the
\* passage of time removes nothing, and an entry leaves a cache only when
\* clearCache (advancedMLApi, SimpleWeatherService) or clearAlertCache
\* empties it.
C4_ExpiryAndRemoval ==
    /\ \A c \in AllCalls :
          /\ c.outcome = "cached" => AgeSeen(c) < Duration(svc)
          /\ c.outcome = "stale" =>
                /\ svc = "weather"
                /\ AgeSeen(c) >= Duration(svc)
                /\ c.failed = <<"OpenWeatherMap", "Open-Meteo">>
    /\ \A k \in DOMAIN lastStore :
          \/ /\ k \in DOMAIN cache
             /\ cache[k] = Entry(lastStore[k].data, lastStore[k].timestamp)
          \/ /\ k \notin DOMAIN cache
             /\ lastStore[k].cleared
             /\ svc \in {"ml", "alert", "weather"}

\* an expired entry still in the Map at the end of the behaviour, a stale
\* entry returned, and an entry removed by a clear
C4_Witness ==
    \/ /\ svc = "hazard" /\ now = MaxTime
       /\ \E k \in DOMAIN cache : now - cache[k].timestamp >= Duration(svc)
       /\ done # NoneDone /\ done.outcome = "cached"
    \/ /\ svc = "weather" /\ done # NoneDone /\ done.outcome = "stale"
    \/ /\ svc = "alert" /\ \E k \in DOMAIN lastStore : k \notin DOMAIN cache

----------------------------------------------------------------------------
\* a call returns in this step: it was served at its start, or a waiting
\* call settled for good
Returned ==
    \/ Len(calls') < Len(calls)
    \/ started' # started /\ Len(calls') = Len(calls)

\* the five results, one per hazard in the fixed order, computed from
\* weather record w for the arguments of call c
FiveResultsFrom(c, w) ==
    /\ Len(c.predictions) = 5
    /\ \A i \in 1..5 :
          /\ c.predictions[i].type = HazardTypes[i]
          /\ c.predictions[i] =
                Calculate(HazardTypes[i],
                          getGeographicData(c.city, c.place[1], c.place[2]), w, date)

C6_Resolved ==
    done # NoneDone =>
        /\ done.outcome \in {"cached", "fetched", "default"}
        /\ FiveResultsFrom(done, done.value)
        /\ done.failed # <<>> =>
              /\ done.outcome = "default"
              /\ done.value = Weather(25, 50, 5, 0, 1013, "clear", 20)
        /\ done.outcome = "default" => done.failed = <<"openweathermap">>

C6_DefaultNotCached ==
    (Returned /\ done'.outcome = "default") => cache' = cache

\* C6: getHazardPredictions always resolves with exactly five results in the
\* order flood, earthquake, storm, fire, landslide; when the weather request
\* fails they are computed from the default record (25, 50, 5, 0, 1013,
\* 'clear', 20), and that record is not written to the weather cache.
C6_FiveResultsAlways == []C6_Resolved /\ [][C6_DefaultNotCached]_vars

\* a call whose request failed after an earlier call had filled the cache
\* under another key
C6_Witness ==
    /\ svc = "hazard"
    /\ done # NoneDone
    /\ done.outcome = "default"
    /\ Len(done.predictions) = 5
    /\ cache # EmptyMap
    /\ done.key \notin DOMAIN cache

----------------------------------------------------------------------------
\* the entry the lookup of call c found was fresh at the start of the call
FreshAtStart(c) ==
    c.seen.present /\ c.start - c.seen.timestamp < WEATHER_CACHE_DURATION

IsPrefix(s, t) == Len(s) <= Len(t) /\ s = SubSeq(t, 1, Len(s))

C7_Chain ==
    \A c \in AllCalls :
        /\ c.key \in {simpleWeatherKey(place) : place \in Places}
        /\ IsPrefix(c.reqs, <<"OpenWeatherMap", "Open-Meteo">>)
        /\ IsPrefix(c.failed, c.reqs)
        /\ IF FreshAtStart(c)
           THEN c.reqs = <<>> /\ c.outcome = "cached" /\ c.value = c.seen.data
           ELSE c.reqs # <<>>
        /\ Len(c.reqs) = 2 => c.failed # <<>>
        /\ c.outcome = "fetched" =>
              /\ c.value.source = c.reqs[Len(c.reqs)]
              /\ Len(c.failed) = Len(c.reqs) - 1

C7_FirstSuccessStored ==
    (Returned /\ done'.outcome = "fetched") =>
        /\ cache' = (done'.key :> Entry(done'.value, now)) @@ cache
        /\ \E i \in 1..Len(calls) : calls[i].key = done'.key /\ calls[i].reqs = done'.reqs

\* C7: getWeather issues no request when its lookup finds a fresh entry under
\* the rounded-coordinate key; otherwise it requests OpenWeatherMap first and
\* Open-Meteo only after the OpenWeatherMap request of the same call failed;
\* the first successful response is stored under that key and returned.
C7_CacheThenOwmThenMeteo == []C7_Chain /\ [][C7_FirstSuccessStored]_vars

\* a call answered by Open-Meteo after OpenWeatherMap failed, its answer in
\* the cache
C7_Witness ==
    /\ svc = "weather"
    /\ done # NoneDone
    /\ done.outcome = "fetched"
    /\ done.reqs = <<"OpenWeatherMap", "Open-Meteo">>
    /\ done.failed = <<"OpenWeatherMap">>
    /\ Get(done.key) = Entry(done.value, now)

----------------------------------------------------------------------------
BothFailed(c) == c.failed = <<"OpenWeatherMap", "Open-Meteo">>

C8_Outcome ==
    \A c \in AllCalls :
        /\ c.outcome = "thrown" =>
              /\ BothFailed(c)
              /\ ~c.seen.present
              /\ c.value = "All weather APIs failed"
        /\ c.outcome = "stale" =>
              /\ BothFailed(c)
              /\ c.seen.present
              /\ c.start - c.seen.timestamp >= WEATHER_CACHE_DURATION
              /\ c.value = c.seen.data
        /\ BothFailed(c) => c.outcome \in {"thrown", "stale"}

C8_CacheUntouched ==
    (Returned /\ done'.outcome \in {"thrown", "stale"}) =>
        /\ cache' = cache
        /\ (done'.outcome = "thrown" /\ Known(done'.key) = done'.known) =>
              done'.key \notin DOMAIN cache

Has(item, field) == field \in DOMAIN item

\* Promise.all([...]) in the order of the array
AggFetchers ==
    <<"fetchNASAEvents", "fetchGDACSAlerts", "fetchUSGSEarthquakes", "fetchNASAFIRMS",
      "fetchIMDWarnings">>

Coordinates(km) == [km |-> km]

\* a NASAEvent as fetchNASAEvents maps it
Event(category, title, geometry) ==
    [category |-> category, title |-> title, geometry |-> geometry]

\* the last event has a geometry entry without coordinates
NASAPayloads ==
    {<< Event("Wildfires", "Fire A", <<[coordinates |-> Coordinates(80)]>>),
        Event("Severe Storms", "Cyclone B", <<[coordinates |-> Coordinates(1200)]>>),
        Event("Floods", "Flood C", <<>>),
        Event("Volcanoes", "Volcano D", <<[coordinates |-> Coordinates(250)]>>),
        Event("Sea and Lake Ice", "Ice E", <<[coordinates |-> Coordinates(900)]>>) >>,
     << Event("Floods", "Flood F", <<[date |-> "2025-07-01"]>>) >>}

\* data.alerts of the proxy; the second list has an alert without coordinates
GDACSPayloads ==
    {<< [eventType |-> "EQ", alertLevel |-> "Red", title |-> "Quake G",
         coordinates |-> [lat |-> 30, lon |-> 78, km |-> 300]],
        [eventType |-> "FL", alertLevel |-> "Green", title |-> "Flood H",
         coordinates |-> [lat |-> 0, lon |-> 0, km |-> 7000]] >>,
     << [eventType |-> "TC", alertLevel |-> "Orange", title |-> "Cyclone I"] >>}

\* a USGSEarthquake as fetchUSGSEarthquakes maps it, magnitude (in tenths)
\* apart
Quake(place, km) == [place |-> place, coordinates |-> Coordinates(km)]

\* properties.mag is null in the second list
USGSPayloads ==
    {<< Quake("near J", 120) @@ [magnitude |-> 62],
        Quake("far K", 700) @@ [magnitude |-> 45] >>,
     << Quake("near L", 100) >>}

Fire(intensity, frp) == [intensity |-> intensity, frp |-> frp]

\* data.fires of the proxy: distance_km is null for the last fire
FIRMSPayloads ==
    {<< Fire("extreme", 90) @@ [distance_km |-> 150],
        Fire("high", 40) @@ [distance_km |-> 120],
        Fire("low", 5) @@ [distance_km |-> 30],
        Fire("moderate", 20) @@ [distance_km |-> 60],
        Fire("moderate", 21) @@ [distance_km |-> 10],
        Fire("low", 6) @@ [distance_km |-> 199],
        Fire("low", 7) @@ [distance_km |-> 200],
        Fire("high", 41) @@ [distance_km |-> 45],
        Fire("moderate", 22) @@ [distance_km |-> 70],
        Fire("moderate", 23) @@ [distance_km |-> 75],
        Fire("moderate", 24) >>}

IMDPayloads ==
    {<< [type |-> "Heavy Rain", severity |-> "Red", message |-> "Red alert"],
        [type |-> "Heat Wave", severity |-> "Yellow", message |-> "Yellow alert"] >>}

\* the lists an ok response of each fetcher may carry
AggPayloads(fetcher) ==
    CASE fetcher = "fetchNASAEvents" -> NASAPayloads
      [] fetcher = "fetchGDACSAlerts" -> GDACSPayloads
      [] fetcher = "fetchUSGSEarthquakes" -> USGSPayloads
      [] fetcher = "fetchNASAFIRMS" -> FIRMSPayloads
      [] fetcher = "fetchIMDWarnings" -> IMDPayloads

\* e.category.toLowerCase().includes(word), for the categories above
Includes(category, word) ==
    word \in CASE category = "Wildfires" -> {"wildfire", "fire"}
               [] category = "Severe Storms" -> {"storm"}
               [] category = "Floods" -> {"flood"}
               [] category = "Volcanoes" -> {"volcano"}
               [] OTHER -> {}

Threat(type, distance, severity, source, description) ==
    [type |-> type, distance |-> distance, severity |-> severity, source |-> source,
     description |-> description]

\* the property reads of calculateNearbyThreats that raise a TypeError
ItemThrows(source, item) ==
    CASE source = "USGS" ->
            \/ ~Has(item, "coordinates")
            \/ item.coordinates.km < 500 /\ ~Has(item, "magnitude")
      [] source = "NASA EONET" ->
            /\ Has(item, "geometry")
            /\ Len(item.geometry) > 0
            /\ ~Has(item.geometry[1], "coordinates")
      [] source = "GDACS" -> ~Has(item, "coordinates")
      [] OTHER -> FALSE

\* what one item of a source adds to threats (nothing, or one threat)
ItemThreats(source, item) ==
    CASE source = "USGS" ->
            IF item.coordinates.km < 500
            THEN <<Threat("Earthquake", item.coordinates.km,
                          IF item.magnitude >= 60 THEN "critical"
                          ELSE IF item.magnitude >= 50 THEN "high"
                          ELSE IF item.magnitude >= 40 THEN "moderate" ELSE "low",
                          "USGS", <<"M", item.magnitude, item.place>>)>>
            ELSE <<>>
      [] source = "NASA EONET" ->
            IF Has(item, "geometry") /\ Len(item.geometry) > 0
               /\ item.geometry[1].coordinates.km < 1000
            THEN LET distance == item.geometry[1].coordinates.km
                 IN  <<Threat(item.category, distance,
                              IF distance < 100 THEN "critical"
                              ELSE IF distance < 300 THEN "high" ELSE "moderate",
                              "NASA EONET", item.title)>>
            ELSE <<>>
      [] source = "NASA FIRMS" ->
            IF Has(item, "distance_km") /\ item.distance_km # 0 /\ item.distance_km < 200
            THEN <<Threat("Active Fire", item.distance_km,
                          IF item.intensity = "extreme" \/ item.distance_km < 20
                          THEN "critical"
                          ELSE IF item.intensity = "high" \/ item.distance_km < 50
                          THEN "high"
                          ELSE IF item.intensity = "low" THEN "low" ELSE "moderate",
                          "NASA FIRMS", <<"Fire hotspot", item.intensity, item.frp>>)>>
            ELSE <<>>
      [] source = "IMD" ->
            <<Threat(item.type, 0,
                     IF item.severity = "Red" THEN "critical"
                     ELSE IF item.severity = "Orange" THEN "high" ELSE "moderate",
                     "IMD", item.message)>>
      [] source = "GDACS" ->
            IF item.coordinates.lat # 0 /\ item.coordinates.lon # 0
               /\ item.coordinates.km < 1000
            THEN <<Threat(item.eventType, item.coordinates.km,
                          IF item.alertLevel = "Red" THEN "critical"
                          ELSE IF item.alertLevel = "Orange" THEN "high" ELSE "moderate",
                          "GDACS", item.title)>>
            ELSE <<>>

\* one of the five for-loops
RECURSIVE ThreatsOf(_, _)
ThreatsOf(source, list) ==
    IF list = <<>> THEN <<>>
    ELSE ItemThreats(source, Head(list)) \o ThreatsOf(source, Tail(list))

RECURSIVE InsertThreat(_, _)
InsertThreat(t, sorted) ==
    IF sorted = <<>> THEN <<t>>
    ELSE IF t.distance < Head(sorted).distance THEN <<t>> \o sorted
    ELSE <<Head(sorted)>> \o InsertThreat(t, Tail(sorted))

\* threats.sort((a, b) => a.distance - b.distance) (stable)
RECURSIVE SortThreats(_)
SortThreats(list) ==
    IF list = <<>> THEN <<>>
    ELSE InsertThreat(list[Len(list)], SortThreats(SubSeq(list, 1, Len(list) - 1)))

Threw == [threw |-> TRUE]
Returns(value) == [threw |-> FALSE, value |-> value]

calculateNearbyThreats(earthquakes, nasaEvents, gdacsAlerts, activeFires, imdWarnings) ==
    IF \/ \E i \in 1..Len(earthquakes) : ItemThrows("USGS", earthquakes[i])
       \/ \E i \in 1..Len(nasaEvents) : ItemThrows("NASA EONET", nasaEvents[i])
       \/ \E i \in 1..Len(gdacsAlerts) : ItemThrows("GDACS", gdacsAlerts[i])
    THEN Threw
    ELSE LET threats ==
                 ThreatsOf("USGS", earthquakes) \o ThreatsOf("NASA EONET", nasaEvents)
                 \o ThreatsOf("NASA FIRMS", activeFires) \o ThreatsOf("IMD", imdWarnings)
                 \o ThreatsOf("GDACS", gdacsAlerts)
             sorted == SortThreats(threats)
         IN  Returns(SubSeq(sorted, 1, Min(10, Len(sorted))))

RECURSIVE SumConfidence(_)
SumConfidence(sources) ==
    IF sources = <<>> THEN 0 ELSE Head(sources).confidence + SumConfidence(Tail(sources))

\* the DataSource pushed when a fetcher settles with list
DataSource(name, confidence, dataCount) ==
    [name |-> name, status |-> "active", lastUpdated |-> now, confidence |-> confidence,
     dataCount |-> dataCount]

SourceOf(fetcher, list) ==
    CASE fetcher = "fetchNASAEvents" ->
            DataSource("NASA EONET", IF Len(list) > 0 THEN 95 ELSE 50, Len(list))
      [] fetcher = "fetchGDACSAlerts" ->
            DataSource("GDACS", IF Len(list) > 0 THEN 92 ELSE 60, Len(list))
      [] fetcher = "fetchUSGSEarthquakes" -> DataSource("USGS Earthquake", 98, Len(list))
      [] fetcher = "fetchNASAFIRMS" ->
            DataSource("NASA FIRMS", IF Len(list) > 0 THEN 94 ELSE 70, Len(list))
      [] fetcher = "fetchIMDWarnings" ->
            DataSource("IMD Warnings", IF Len(list) > 0 THEN 88 ELSE 75, Len(list))

\* no getAggregatedData call made yet
NoAggregation == [pc |-> "idle"]

AggPlaces == {<<28612, 77209>>}

\* the orders in which the responses of one call arrive
ArrivalOrders ==
    {AggFetchers,
     <<"fetchIMDWarnings", "fetchNASAFIRMS", "fetchUSGSEarthquakes", "fetchGDACSAlerts",
       "fetchNASAEvents">>}

\* the fetcher whose response arrives next
RECURSIVE NextToSettle(_, _)
NextToSettle(a, i) ==
    IF a.order[i] \in a.pending THEN a.order[i] ELSE NextToSettle(a, i + 1)

Fetchers == {AggFetchers[i] : i \in 1..Len(AggFetchers)}

\* the .then callback of a fetcher: its list is kept, its DataSource pushed
Settled(a, fetcher, list) ==
    [a EXCEPT !.pending = @ \ {fetcher},
              !.values = [@ EXCEPT ![fetcher] = list],
              !.sources = Append(@, SourceOf(fetcher, list))]

\* the fetchers, in the order of the array, that return their cached list
\* without a request
RECURSIVE ServeCached(_, _)
ServeCached(a, i) ==
    IF i > Len(AggFetchers) THEN a
    ELSE LET fetcher == AggFetchers[i]
             cached == disasterGetFromCache(disasterKey(fetcher, a.place))
         IN  ServeCached(IF Truthy(cached) THEN Settled(a, fetcher, cached.items) ELSE a,
                         i + 1)

\* getAggregatedData after the await of Promise.all
AfterAll(a) ==
    LET nasaEvents == a.values["fetchNASAEvents"]
        sources == Append(a.sources, DataSource("OpenWeatherMap", 85, 1))
        wildfires == SelectSeq(nasaEvents, LAMBDA e :
                         Includes(e.category, "wildfire") \/ Includes(e.category, "fire"))
        storms == SelectSeq(nasaEvents, LAMBDA e :
                         Includes(e.category, "storm") \/ Includes(e.category, "cyclone"))
        floods == SelectSeq(nasaEvents, LAMBDA e : Includes(e.category, "flood"))
        volcanoes == SelectSeq(nasaEvents, LAMBDA e : Includes(e.category, "volcano"))
        nearbyThreats ==
            calculateNearbyThreats(a.values["fetchUSGSEarthquakes"], nasaEvents,
                                   a.values["fetchGDACSAlerts"], a.values["fetchNASAFIRMS"],
                                   a.values["fetchIMDWarnings"])
    IN  IF nearbyThreats.threw
        THEN [a EXCEPT !.pc = "rejected", !.sources = sources]
        ELSE [a EXCEPT !.pc = "resolved", !.sources = sources,
                 !.result =
                    [sources |-> sources,
                     events |->
                        [earthquakes |-> a.values["fetchUSGSEarthquakes"],
                         wildfires |-> wildfires,
                         activeFires |-> a.values["fetchNASAFIRMS"],
                         storms |-> storms,
                         floods |-> floods,
                         volcanoes |-> volcanoes,
                         gdacsAlerts |-> a.values["fetchGDACSAlerts"],
                         imdWarnings |-> a.values["fetchIMDWarnings"]],
                     nearbyThreats |-> nearbyThreats.value,
                     overallConfidence |->
                        [sum |-> SumConfidence(sources), count |-> Len(sources)],
                     lastUpdated |-> now]]

\* Promise.all settles once the last fetcher has
WhenAllSettled(a) == IF a.pending = {} THEN AfterAll(a) ELSE a

\* getAggregatedData up to the await of Promise.all
getAggregatedData_Start ==
    \E place \in AggPlaces, order \in ArrivalOrders :
        /\ svc = "aggregate"
        /\ agg.pc # "awaiting"
        /\ started < MaxCalls
        /\ started' = started + 1
        /\ agg' = WhenAllSettled(ServeCached(
                      [pc |-> "awaiting", place |-> place, order |-> order,
                       pending |-> Fetchers,
                       values |-> [f \in Fetchers |-> <<>>], sources |-> <<>>,
                       result |-> NONE], 1))
        /\ UNCHANGED <<svc, now, cache, calls, done, lastStore>>
        /\ UNCHANGED <<riskVars, sos, panel>>

\* the request of one fetcher settles: an ok response with a list, which is
\* cached, or a failure, for which the fetcher resolves with []
getAggregatedData_FetchSettled ==
    \E fetcher \in Fetchers :
        /\ svc = "aggregate"
        /\ agg.pc = "awaiting"
        /\ fetcher = NextToSettle(agg, 1)
        /\ \/ \E list \in AggPayloads(fetcher) :
                /\ CacheSet(disasterKey(fetcher, agg.place), Array(list))
                /\ agg' = WhenAllSettled(Settled(agg, fetcher, list))
           \/ \E failure \in DisasterFailures :
                /\ agg' = WhenAllSettled(Settled(agg, fetcher, <<>>))
                /\ UNCHANGED <<cache, lastStore>>
        /\ UNCHANGED <<svc, now, calls, done, started>>
        /\ UNCHANGED <<riskVars, sos, panel>>

\* wall-clock time advances between calls: every fetch is aborted after 30
\* seconds at most (AbortSignal.timeout), a small part of a tick
TickBetweenCalls ==
    /\ agg.pc # "awaiting"
    /\ Tick

InitAgg ==
    /\ svc = "aggregate"
    /\ now = 0
    /\ cache = EmptyMap
    /\ calls = <<>>
    /\ done = NoneDone
    /\ started = 0
    /\ lastStore = EmptyMap
    /\ date \in CacheDates
    /\ geoData = NONE /\ weather = NONE /\ fn = NONE
    /\ elapsed = 0 /\ first = NoCall /\ last = NoCall
    /\ agg = NoAggregation
    /\ SosIdle /\ PanelIdle

NextAgg == TickBetweenCalls \/ getAggregatedData_Start \/ getAggregatedData_FetchSettled

SpecAgg == InitAgg /\ [][NextAgg]_vars

----------------------------------------------------------------------------
EventLists ==
    {"earthquakes", "wildfires", "activeFires", "storms", "floods", "volcanoes",
     "gdacsAlerts", "imdWarnings"}

\* the one response shape
HasResponseShape(r) ==
    /\ DOMAIN r = {"sources", "events", "nearbyThreats", "overallConfidence", "lastUpdated"}
    /\ DOMAIN r.events = EventLists
    /\ Len(r.sources) = 6
    /\ Len(r.nearbyThreats) <= 10

\* some list the aggregation holds has an item without a field that
\* calculateNearbyThreats dereferences
MalformedItem(a) ==
    \/ \E i \in 1..Len(a.values["fetchUSGSEarthquakes"]) :
          ItemThrows("USGS", a.values["fetchUSGSEarthquakes"][i])
    \/ \E i \in 1..Len(a.values["fetchNASAEvents"]) :
          ItemThrows("NASA EONET", a.values["fetchNASAEvents"][i])
    \/ \E i \in 1..Len(a.values["fetchGDACSAlerts"]) :
          ItemThrows("GDACS", a.values["fetchGDACSAlerts"][i])

\* C5 as stated: getAggregatedData never rejects, whatever its five fetches
\* do and whatever payload they return, and its result has the one response
\* shape.
C5_AsStated ==
    /\ agg.pc # "rejected"
    /\ agg.pc = "resolved" => HasResponseShape(agg.result)

\* what the code does guarantee: failures of the fetches never reject the
\* call, only an item without a dereferenced field does
C5_RejectsOnlyOnMalformedItem ==
    /\ agg.pc = "rejected" <=> (agg.pc \notin {"idle", "awaiting"} /\ MalformedItem(agg))
    /\ agg.pc = "resolved" => HasResponseShape(agg.result)

(***************************************************************************)
(* SpecSOS: the EmergencySOS component.  Its state is the React state, the *)
(* countdownRef, and the timers the handlers have created and nothing has  *)
(* cleared: the countdown intervals (each with the `count' of its          *)
(* closure), the send intervals (each with its `contactIndex') and the     *)
(* 30-second timeouts.  A timer callback is one step.  The updater passed  *)
(* to setSentContacts is taken to run when it is passed, before            *)
(* contactIndex++.                                                         *)
(***************************************************************************)
MaxTimers == 3
MaxActivations == 2
\* ticks a countdown interval is followed for after its count reached 0
MaxOverrun == 1

\* ids of defaultContacts
ContactIds == <<"1", "2", "3">>

Without(timers, id) == [t \in DOMAIN timers \ {id} |-> timers[t]]

\* released: the last press was released before it activated anything;
\* cancelled: Cancel Alert was pressed and no activation followed yet;
\* notifiedAtCancel: the number of onSOSActivated calls at that moment
\* (these three record history, the component does not hold them)
InitSOS ==
    /\ sos = [isHolding |-> FALSE, countdown |-> 3, sosStatus |-> "idle",
              sentContacts |-> {}, showCancelOption |-> FALSE, countdownRef |-> 0,
              intervals |-> <<>>, sends |-> <<>>, resets |-> {}, notified |-> 0,
              nextId |-> 1, activations |-> 0,
              released |-> FALSE, cancelled |-> FALSE, notifiedAtCancel |-> 0]
    /\ svc = NONE /\ now = 0 /\ cache = EmptyMap /\ calls = <<>> /\ done = NoneDone
    /\ started = 0 /\ lastStore = EmptyMap
    /\ RiskIdle /\ AggIdle /\ PanelIdle

\* the button is disabled while sosStatus is 'active' or 'sent'
ButtonEnabled == sos.sosStatus = "idle"

\* onMouseDown, onTouchStart
handleMouseDown ==
    /\ ButtonEnabled
    /\ sos.nextId <= MaxTimers
    /\ sos' = [sos EXCEPT !.isHolding = TRUE, !.countdown = 3,
                          !.countdownRef = sos.nextId,
                          !.intervals = (sos.nextId :> 3) @@ @,
                          !.nextId = @ + 1,
                          !.released = FALSE]
    /\ UNCHANGED <<riskVars, cacheVars, agg, panel>>

\* clearInterval(countdownRef.current), when the ref is set
ClearCountdownRef(s) ==
    IF s.countdownRef # 0 THEN [s EXCEPT !.intervals = Without(@, s.countdownRef)] ELSE s

\* onMouseUp, onMouseLeave, onTouchEnd
handleMouseUp ==
    /\ ButtonEnabled
    /\ sos' = ClearCountdownRef([sos EXCEPT !.isHolding = FALSE, !.countdown = 3,
                                            !.released = TRUE])
    /\ UNCHANGED <<riskVars, cacheVars, agg, panel>>

\* handleSOSActivate: a send interval and a 30-second timeout are created
handleSOSActivate(s) ==
    [s EXCEPT !.sosStatus = "active", !.showCancelOption = TRUE,
              !.sends = (s.nextId :> 0) @@ @,
              !.resets = @ \cup {s.nextId},
              !.nextId = @ + 1,
              !.activations = @ + 1,
              !.cancelled = FALSE]

\* the callback of a countdown interval
countdownTick ==
    \E id \in DOMAIN sos.intervals :
        LET count == sos.intervals[id] - 1
            ticked == [sos EXCEPT !.intervals[id] = count, !.countdown = count]
        IN  /\ sos.intervals[id] > 0 - MaxOverrun
            /\ count <= 0 => sos.activations < MaxActivations
            /\ sos' = IF count <= 0
                      THEN handleSOSActivate(
                               [ClearCountdownRef(ticked) EXCEPT !.isHolding = FALSE])
                      ELSE ticked
            /\ UNCHANGED <<riskVars, cacheVars, agg, panel>>

\* the callback of a send interval
sendTick ==
    \E id \in DOMAIN sos.sends :
        LET contactIndex == sos.sends[id]
        IN  /\ sos' = IF contactIndex < Len(ContactIds)
                      THEN [sos EXCEPT !.sentContacts = @ \cup {ContactIds[contactIndex + 1]},
                                       !.sends[id] = contactIndex + 1]
                      ELSE [sos EXCEPT !.sends = Without(@, id),
                                       !.sosStatus = "sent",
                                       !.notified = @ + 1]
            /\ UNCHANGED <<riskVars, cacheVars, agg, panel>>

\* the callback of the 30-second timeout of an activation; its send interval
\* (800 ms a tick, four ticks) has finished by then
autoReset ==
    \E id \in sos.resets :
        /\ id \notin DOMAIN sos.sends
        /\ sos' = [sos EXCEPT !.sosStatus = "idle", !.sentContacts = {},
                              !.showCancelOption = FALSE, !.resets = @ \ {id}]
        /\ UNCHANGED <<riskVars, cacheVars, agg, panel>>

\* onClick of Cancel Alert, rendered while showCancelOption && sosStatus === 'active'
handleCancel ==
    /\ sos.showCancelOption
    /\ sos.sosStatus = "active"
    /\ sos' = [sos EXCEPT !.sosStatus = "idle", !.sentContacts = {},
                          !.showCancelOption = FALSE,
                          !.cancelled = TRUE, !.notifiedAtCancel = sos.notified]
    /\ UNCHANGED <<riskVars, cacheVars, agg, panel>>

NextSOS ==
    \/ handleMouseDown
    \/ handleMouseUp
    \/ countdownTick
    \/ sendTick
    \/ autoReset
    \/ handleCancel

SpecSOS == InitSOS /\ [][NextSOS]_vars

----------------------------------------------------------------------------
C9_ReleaseStopsCountdown ==
    sos.released =>
        /\ ~sos.isHolding
        /\ sos.countdown = 3
        /\ DOMAIN sos.intervals = {}

\* a step in which handleSOSActivate runs
C9_ActivationNeedsHold ==
    sos'.activations # sos.activations =>
        /\ sos.isHolding
        /\ sos.countdown = 1

\* C9 as stated: the SOS activates only on the third consecutive tick of a
\* press that is still held; once the button is released before that, the
\* countdown shows 3, no countdown timer runs and nothing activates until the
\* next press, for every sequence of press and release events.
C9_AsStated == []C9_ReleaseStopsCountdown /\ [][C9_ActivationNeedsHold]_vars

\* C10 as stated: after Cancel Alert, and until the SOS is activated again,
\* sosStatus does not become 'sent', no contact id is added to sentContacts
\* and onSOSActivated is not called.
C10_AsStated ==
    sos.cancelled =>
        /\ sos.sosStatus # "sent"
        /\ sos.sentContacts = {}
        /\ sos.notified = sos.notifiedAtCancel

(***************************************************************************)
(* EmergencyResponsePanel (src/unnamed/part_005): the SOS button with its   *)
(* ten-second countdown, the effect that arms the countdown timer or calls  *)
(* executeSOS, and the asynchronous executeSOS protocol (location lookup,   *)
(* notification, tel: call).  An activation is one setSosState that makes   *)
(* isActive true; activations are numbered in the order they happen.        *)
(***************************************************************************)
MaxPanelActivations == 3
MaxExecutions == 4

COUNTDOWN_START == 10
COUNTDOWN_IMMEDIATE == 1

\* const [sosState, setSosState] = useState({...}) and what the component
\* has set in motion: the timer of the countdown effect, a render requested
\* by setStatus alone, the executeSOS calls still awaiting, the calls that
\* finished, the delayed tel: timers and the tel: calls made.
InitialPanel(hasPrimary) ==
    [ isActive |-> FALSE, countdown |-> 0, locationSent |-> FALSE,
      contactsNotified |-> FALSE,
      hasPrimary |-> hasPrimary,
      timer |-> FALSE,
      statusRender |-> FALSE,
      activation |-> 0,
      running |-> <<>>,
      finished |-> <<>>,
      telTimers |-> <<>>,
      telCalls |-> <<>>,
      cancelledEarly |-> {} ]

\* The state objects the click handlers pass to setSosState.
startedState(s) ==
    [s EXCEPT !.isActive = TRUE, !.countdown = COUNTDOWN_START,
              !.locationSent = FALSE, !.contactsNotified = FALSE,
              !.activation = @ + 1]

immediateState(s) ==
    [s EXCEPT !.isActive = TRUE, !.countdown = COUNTDOWN_IMMEDIATE,
              !.locationSent = FALSE, !.contactsNotified = FALSE,
              !.activation = @ + 1]

cancelledState(s) ==
    [s EXCEPT !.isActive = FALSE, !.countdown = 0,
              !.locationSent = FALSE, !.contactsNotified = FALSE]

\* The dependency list of the countdown effect.  executeSOS is a new
\* function exactly when one of its own dependencies changed; of these
\* only sosState.locationSent changes after the mount.
depsChanged_EveryRender(old, new) == TRUE

depsChanged(old, new) ==
    \/ old.isActive # new.isActive
    \/ old.countdown # new.countdown
    \/ old.locationSent # new.locationSent

\* return () => clearTimeout(timer)
cleanup_KeepsTimer(s) == s

cleanup(s) == [s EXCEPT !.timer = FALSE]

\* executeSOS up to its first await: the guard on the captured
\* sosState.locationSent, setStatus, and the pending getCurrentLocation().
executeSOS(s) ==
    IF s.locationSent
    THEN s
    ELSE [s EXCEPT !.running = Append(@, [act |-> s.activation,
                                            stage |-> "getCurrentLocation"]),
                   !.statusRender = TRUE]

\* The countdown effect, run after the render that follows a state change.
countdownEffect(old, new) ==
    IF depsChanged(old, new)
    THEN LET s == cleanup(new)
         IN  IF s.isActive /\ s.countdown > 0
             THEN [s EXCEPT !.timer = TRUE]
             ELSE IF s.isActive /\ s.countdown = 0
                  THEN executeSOS(s)
                  ELSE s
    ELSE new

Executions(s) == Len(s.running) + Len(s.finished)

\* A state change is rendered and the effects of that render are run.
Render(new) ==
    /\ panel' = countdownEffect(panel, new)
    /\ Executions(panel') <= MaxExecutions
    /\ UNCHANGED <<riskVars, cacheVars, agg, sos>>

\* onClick while sosState.isActive is false
startSOS ==
    /\ ~panel.isActive
    /\ panel.activation < MaxPanelActivations
    /\ Render(startedState(panel))

\* onClick while sosState.isActive is true
cancelSOS ==
    /\ panel.isActive
    /\ Render([cancelledState(panel) EXCEPT
                  !.statusRender = TRUE,
                  !.cancelledEarly =
                      IF panel.countdown > 0
                      THEN @ \cup {panel.activation} ELSE @])

onDoubleClick ==
    /\ ~panel.isActive
    /\ panel.activation < MaxPanelActivations
    /\ Render(immediateState(panel))

\* The timer of the countdown effect fires.
countdownTimeout ==
    /\ panel.timer
    /\ Render([panel EXCEPT !.timer = FALSE, !.countdown = @ - 1])

\* A render that setStatus alone asked for: sosState is what it was.
statusRendered ==
    /\ panel.statusRender
    /\ Render([panel EXCEPT !.statusRender = FALSE])

RemoveAt(seq, i) == [j \in 1..(Len(seq) - 1) |-> IF j < i THEN seq[j] ELSE seq[j + 1]]

\* The catch block of executeSOS.
catchCalls_None(s, act) == s.telCalls

catchCalls(s, act) ==
    IF s.hasPrimary THEN Append(s.telCalls, act) ELSE s.telCalls

executeSOS_catch(s, i) ==
    [s EXCEPT !.running = RemoveAt(@, i),
              !.finished = Append(@, [act |-> s.running[i].act, path |-> "failure"]),
              !.telCalls = catchCalls(s, s.running[i].act),
              !.statusRender = TRUE,
              !.isActive = FALSE]

\* The try block of executeSOS after notifyEmergencyContacts resolved.
executeSOS_try(s, i) ==
    [s EXCEPT !.running = RemoveAt(@, i),
              !.finished = Append(@, [act |-> s.running[i].act, path |-> "success"]),
              !.telTimers = IF s.hasPrimary
                            THEN Append(@, s.running[i].act) ELSE @,
              !.statusRender = TRUE,
              !.isActive = FALSE,
              !.locationSent = TRUE,
              !.contactsNotified = TRUE]

getCurrentLocation_Resolved ==
    \E i \in 1..Len(panel.running) :
        /\ panel.running[i].stage = "getCurrentLocation"
        /\ Render([panel EXCEPT
                      !.running[i].stage = "notifyEmergencyContacts"])

getCurrentLocation_Rejected ==
    \E i \in 1..Len(panel.running) :
        /\ panel.running[i].stage = "getCurrentLocation"
        /\ Render(executeSOS_catch(panel, i))

\* notifyEmergencyContacts resolved and localStorage.setItem returned.
notifyEmergencyContacts_Resolved ==
    \E i \in 1..Len(panel.running) :
        /\ panel.running[i].stage = "notifyEmergencyContacts"
        /\ Render(executeSOS_try(panel, i))

\* notifyEmergencyContacts rethrew, or localStorage.setItem threw.
notifyEmergencyContacts_Rejected ==
    \E i \in 1..Len(panel.running) :
        /\ panel.running[i].stage = "notifyEmergencyContacts"
        /\ Render(executeSOS_catch(panel, i))

\* setTimeout(() => window.open(`tel:...`), 1000) fires.
telTimeout ==
    /\ Len(panel.telTimers) > 0
    /\ panel' = [panel EXCEPT !.telTimers = Tail(@),
                              !.telCalls = Append(@, Head(panel.telTimers))]
    /\ UNCHANGED <<riskVars, cacheVars, agg, sos>>

InitPanel ==
    /\ \E hasPrimary \in BOOLEAN : panel = InitialPanel(hasPrimary)
    /\ RiskIdle /\ CacheIdle /\ AggIdle /\ SosIdle

NextPanel ==
    \/ startSOS
    \/ cancelSOS
    \/ onDoubleClick
    \/ countdownTimeout
    \/ statusRendered
    \/ getCurrentLocation_Resolved
    \/ getCurrentLocation_Rejected
    \/ notifyEmergencyContacts_Resolved
    \/ notifyEmergencyContacts_Rejected
    \/ telTimeout

SpecPanel == InitPanel /\ [][NextPanel]_vars

\* ---- Claims about EmergencyResponsePanel

ActivationsOf(seq) == {seq[i].act : i \in 1..Len(seq)}
RunsOf(s, act) ==
    Cardinality({i \in 1..Len(s.running) : s.running[i].act = act})
    + Cardinality({i \in 1..Len(s.finished) : s.finished[i].act = act})
CallsOf(s, act) ==
    Cardinality({i \in 1..Len(s.telCalls) : s.telCalls[i] = act})
    + Cardinality({i \in 1..Len(s.telTimers) : s.telTimers[i] = act})

CancelStep ==
    /\ panel.isActive /\ panel.countdown > 0
    /\ panel'.cancelledEarly # panel.cancelledEarly

\* C11, the step: cancelling an active SOS whose countdown is above zero
\* leaves no countdown timer armed and sets isActive false and countdown 0.
C11_CancelResets ==
    CancelStep => /\ ~panel'.isActive
                  /\ panel'.countdown = 0
                  /\ ~panel'.timer

\* C11, afterwards: executeSOS is never invoked for a cancelled activation,
\* and until the next activation the state stays inactive with countdown 0.
C11_NeverExecuted ==
    /\ \A act \in panel.cancelledEarly : RunsOf(panel, act) = 0
    /\ panel.activation \in panel.cancelledEarly =>
           ~panel.isActive /\ panel.countdown = 0 /\ ~panel.timer

\* C11: cancelling an active SOS while its countdown is above zero stops
\* the countdown, resets the state to inactive with countdown 0, and
\* executeSOS is never invoked for that activation.
C11_CancelDuringCountdown == []C11_NeverExecuted /\ [][C11_CancelResets]_vars

\* An activation cancelled at a countdown above zero, while the executeSOS
\* of an earlier activation has run to its end and a later one counts down.
C11_Witness ==
    /\ 2 \in panel.cancelledEarly
    /\ 1 \in ActivationsOf(panel.finished)
    /\ panel.activation = 3 /\ panel.isActive /\ panel.countdown = 0

\* C12: the executeSOS protocol (location lookup, notification, call) is
\* carried out at most once per activation, however countdown ticks,
\* renders and state updates interleave with the calls still awaiting.
C12_OncePerActivation ==
    \A act \in 1..panel.activation :
        /\ RunsOf(panel, act) <= 1
        /\ CallsOf(panel, act) <= 1

\* Two activations have their executeSOS calls awaiting at once, and the
\* render asked for by setStatus has gone by.
C12_Witness ==
    /\ Len(panel.running) = 2
    /\ panel.running[1].act # panel.running[2].act
    /\ panel.isActive /\ panel.countdown = 0
    /\ ~panel.statusRender

FinishStep == Len(panel'.finished) = Len(panel.finished) + 1
LastFinished(s) == s.finished[Len(s.finished)]

\* C13, the calls: every executeSOS that ran to its end with a primary
\* contact has had its tel: call made or scheduled, on either path.
C13_CallInitiated ==
    \A i \in 1..Len(panel.finished) :
        panel.hasPrimary =>
            IF panel.finished[i].path = "failure"
            THEN \E j \in 1..Len(panel.telCalls) :
                     panel.telCalls[j] = panel.finished[i].act
            ELSE CallsOf(panel, panel.finished[i].act) >= 1

\* C13, the state: when executeSOS ends isActive is false; locationSent
\* is set by the success path and left alone by the failure path.
C13_EndState ==
    /\ FinishStep =>
          /\ ~panel'.isActive
          /\ LastFinished(panel').path = "success" => panel'.locationSent
          /\ LastFinished(panel').path = "failure" =>
                 panel'.locationSent = panel.locationSent
    /\ (~panel.locationSent /\ panel'.locationSent) =>
          FinishStep /\ LastFinished(panel').path = "success"

\* C13: whenever executeSOS runs and a primary contact exists, a tel: call
\* to that contact is initiated on the success path and on the failure
\* path; isActive ends false in both, and locationSent becomes true only
\* on the success path.
C13_CallOnBothPaths == []C13_CallInitiated /\ [][C13_EndState]_vars

\* One executeSOS ended in success and one in failure, with a primary
\* contact, and both calls have been made.
C13_Witness ==
    /\ panel.hasPrimary
    /\ \E i, j \in 1..Len(panel.finished) :
           /\ panel.finished[i].path = "success"
           /\ panel.finished[j].path = "failure"
    /\ Len(panel.telCalls) = 2
    /\ panel.telTimers = <<>>

----------------------------------------------------------------------------
(***************************************************************************)
(* shelterService.ts: searchRealShelters with its Google Places loop, the   *)
(* OpenStreetMap fallback searchOpenStreetMapShelters and the shelterCache  *)
(* both write to.  A shelter is its id, its distance in km and whether the  *)
(* response carried its coordinates.                                        *)
(***************************************************************************)
MaxShelterTime == 3
MaxShelterCalls == 2

\* CACHE_DURATION (15 minutes), in ticks of five minutes
SHELTER_CACHE_DURATION == 3
\* data.results.slice(0, 5) and shelters.slice(0, 20)
GOOGLE_PER_TYPE == 5
OSM_LIMIT == 20
DefaultRadius == 5000

placeTypes ==
    <<"hospital", "fire_station", "police", "school", "local_government_office">>

ShelterPlaces == {<<28612, 77209>>}
ApiKeys == {"AIza-key", "demo-key", ""}

Shelter(id, km) == [id |-> id, distance |-> km, located |-> TRUE]
Unlocated(id) == [id |-> id, distance |-> 0, located |-> FALSE]

\* Array.prototype.slice(0, n)
Slice(list, n) == SubSeq(list, 1, Min(n, Len(list)))

\* shelters.sort((a, b) => (a.distance || 0) - (b.distance || 0))
sortByDistance(list) == SortThreats(list)

\* the responses of one Places request: fetch rejects, !response.ok, a
\* status other than 'OK', a place without geometry (the read throws), or
\* status 'OK' with six places
GoogleFailures == {"rejected", "not ok", "status not OK", "malformed"}
GoogleResults ==
    {<<Shelter(1, 7), Shelter(2, 2), Shelter(3, 9), Shelter(4, 4), Shelter(5, 8),
       Shelter(6, 1)>>}

\* the responses of the Overpass request: data.elements of two elements,
\* of three with one lacking coordinates, and of twenty-one
OSMFailures == {"rejected", "not ok", "no elements"}
OSMElements ==
    {<<Shelter(1, 5), Shelter(2, 2)>>,
     <<Shelter(1, 6), Unlocated(2), Shelter(3, 3)>>,
     [i \in 1..(OSM_LIMIT + 1) |-> Shelter(i, 30 - i)]}

\* `${lat.toFixed(3)},${lng.toFixed(3)},${radius}`
shelterKey(place, radius) == <<toFixed(place[1], 3), toFixed(place[2], 3), radius>>

\* cached && Date.now() - cached.timestamp < CACHE_DURATION
shelterFresh(cached) ==
    cached.present /\ now - cached.timestamp < SHELTER_CACHE_DURATION

\* !apiKey || apiKey === 'demo-key' || apiKey.includes('your_')
validKey(apiKey) == apiKey # "" /\ apiKey # "demo-key"

\* What shelterCache holds under a key: data is the list; via (which
\* function stored it) and returned (what that call returned) are history.
Stored(list, via, returned) == [data |-> list, via |-> via, returned |-> returned]

\* searchRealShelters up to its first await, or to the return of the
\* cached list.  The searches of a behaviour are made one after another;
\* failures collects the kinds of failure the Places requests met.
searchRealShelters_Start ==
    \E place \in ShelterPlaces, apiKey \in ApiKeys :
        /\ svc = "shelter"
        /\ started < MaxShelterCalls
        /\ calls = <<>>
        /\ LET key == shelterKey(place, DefaultRadius)
               cached == Get(key)
               c == NewCall("searchRealShelters", key, place, NONE, cached)
                        @@ [shelters |-> <<>>, failures |-> {}, via |-> NONE]
           IN  StartCall(
                   IF shelterFresh(cached)
                   THEN Finish([c EXCEPT !.via = cached.data.via],
                               "cached", cached.data.data)
                   ELSE IF ~validKey(apiKey)
                        THEN Request(c, "osm", "Overpass")
                        ELSE Request(c, "google", placeTypes[1]))
        /\ UNCHANGED <<svc, now, cache, lastStore>>
        /\ UNCHANGED <<riskVars, agg, sos, panel>>

\* The rest of one pass of the loop over placeTypes, after its response:
\* on to the next type, or past the loop to sort, store and return.
afterPlaceType(i, c) ==
    IF Len(c.reqs) < Len(placeTypes)
    THEN /\ Settle(i, Request(c, "google", placeTypes[Len(c.reqs) + 1]))
         /\ UNCHANGED <<cache, lastStore>>
    ELSE LET sorted == sortByDistance(c.shelters)
         IN  /\ CacheSet(c.key, Stored(sorted, "google", sorted))
             /\ Settle(i, Finish([c EXCEPT !.via = "google"], "fetched", sorted))

\* if (!response.ok) continue;  if (data.status !== 'OK') continue;
skipsPlaceType(failure) == failure \in {"not ok", "status not OK"}

\* one Places request settles
searchRealShelters_Places ==
    \E i \in 1..Len(calls) :
        /\ svc = "shelter"
        /\ calls[i].pc = "google"
        /\ \/ \E results \in GoogleResults :
                afterPlaceType(i, [calls[i] EXCEPT
                    !.shelters = @ \o Slice(results, GOOGLE_PER_TYPE)])
           \/ \E failure \in GoogleFailures :
                IF skipsPlaceType(failure)
                THEN afterPlaceType(i, [calls[i] EXCEPT !.failures = @ \cup {failure}])
                ELSE /\ Settle(i, Request([calls[i] EXCEPT !.failures = @ \cup {failure}],
                                          "osm", "Overpass"))
                     /\ UNCHANGED <<cache, lastStore>>
        /\ UNCHANGED <<svc, now>>
        /\ UNCHANGED <<riskVars, agg, sos, panel>>

\* .filter((s) => s.lat && s.lng)
Located(list) == SelectSeq(list, LAMBDA sh : sh.located)

\* return shelters.slice(0, 20)
osmReturned(sorted) == Slice(sorted, OSM_LIMIT)

\* the Overpass request of searchOpenStreetMapShelters settles
searchOpenStreetMapShelters_Response ==
    \E i \in 1..Len(calls) :
        /\ svc = "shelter"
        /\ calls[i].pc = "osm"
        /\ \/ \E elements \in OSMElements :
                LET sorted == sortByDistance(Located(elements))
                IN  /\ CacheSet(calls[i].key, Stored(sorted, "osm", osmReturned(sorted)))
                    /\ Settle(i, Finish([calls[i] EXCEPT !.via = "osm"],
                                        "fetched", osmReturned(sorted)))
           \/ \E failure \in OSMFailures :
                /\ Settle(i, Finish([calls[i] EXCEPT !.via = "osm"], "failed", <<>>))
                /\ UNCHANGED <<cache, lastStore>>
        /\ UNCHANGED <<svc, now>>
        /\ UNCHANGED <<riskVars, agg, sos, panel>>

ShelterTick ==
    /\ svc = "shelter"
    /\ now < MaxShelterTime
    /\ now' = now + 1
    /\ UNCHANGED <<svc, cache, calls, done, started, lastStore>>
    /\ UNCHANGED <<riskVars, agg, sos, panel>>

InitShelter ==
    /\ svc = "shelter" /\ now = 0 /\ cache = EmptyMap /\ calls = <<>>
    /\ done = NoneDone /\ started = 0 /\ lastStore = EmptyMap
    /\ RiskIdle /\ AggIdle /\ SosIdle /\ PanelIdle

NextShelter ==
    \/ ShelterTick
    \/ searchRealShelters_Start
    \/ searchRealShelters_Places
    \/ searchOpenStreetMapShelters_Response

SpecShelter == InitShelter /\ [][NextShelter]_vars

\* ---- Claims about searchRealShelters

SearchReturned == done.op = "searchRealShelters" /\ done.pc = "done"
AskedOverpass(c) == \E j \in 1..Len(c.reqs) : c.reqs[j] = "Overpass"
IsSortedByDistance(list) ==
    \A j \in 1..(Len(list) - 1) : list[j].distance <= list[j + 1].distance

\* C14: every kind of Google failure (rejected fetch, non-OK HTTP
\* response, payload status other than 'OK') makes a search with a valid
\* key fall back to OpenStreetMap and return that search's result.
C14_AsStated ==
    (SearchReturned /\ done.outcome # "cached" /\ done.failures # {}) =>
        AskedOverpass(done) /\ done.via = "osm"

\* What the code does: a rejected fetch or a malformed result falls back;
\* a non-OK response or status is skipped, and when no place type threw
\* the search stores and returns what the other types gave, without
\* asking OpenStreetMap.
C14_OnlyThrowsFallBack ==
    (SearchReturned /\ done.outcome # "cached" /\ done.failures # {}) =>
        IF \A failure \in done.failures : skipsPlaceType(failure)
        THEN ~AskedOverpass(done) /\ done.via = "google"
             /\ Len(done.reqs) = Len(placeTypes)
        ELSE AskedOverpass(done) /\ done.via = "osm"

\* All five Places requests came back non-OK: the search returned an empty
\* list from the Google path and stored it.
C14_Witness ==
    /\ SearchReturned /\ done.outcome = "fetched" /\ done.via = "google"
    /\ done.failures = {"not ok", "status not OK"}
    /\ done.value = <<>>
    /\ Get(done.key).present /\ Get(done.key).data.data = <<>>

\* C15: every list from the OpenStreetMap search has at most 20 shelters
\* in non-decreasing distance, on the call that fetched it and on later
\* cache hits, and a cache hit returns the list the fetching call returned.
C15_AsStated ==
    (SearchReturned /\ done.via = "osm") =>
        /\ Len(done.value) <= OSM_LIMIT
        /\ IsSortedByDistance(done.value)
        /\ done.outcome = "cached" => done.value = done.seen.data.returned

\* What the code does: the fetching call returns the first 20 of the
\* sorted list, a cache hit returns the whole sorted list that was stored.
C15_SortedButUncappedOnHit ==
    (SearchReturned /\ done.via = "osm") =>
        /\ IsSortedByDistance(done.value)
        /\ done.outcome # "cached" => Len(done.value) <= OSM_LIMIT
        /\ done.outcome = "cached" =>
              /\ done.value = done.seen.data.data
              /\ done.seen.data.returned = Slice(done.value, OSM_LIMIT)

\* A cache hit returned 21 shelters that the OpenStreetMap search had
\* stored, where the fetching call had returned 20.
C15_Witness ==
    /\ SearchReturned /\ done.outcome = "cached" /\ done.via = "osm"
    /\ Len(done.value) = OSM_LIMIT + 1
    /\ Len(done.seen.data.returned) = OSM_LIMIT

====
